---- MODULE Spec2Model ----
(***************************************************************************)
(* Training-task orchestration of CODES-Benchmark: the task generator      *)
(* (train_surrogate), the worker (train_and_save_model), the scheduler     *)
(* (parallel_training / main), the data subset selector (get_data_subset)  *)
(* the artifact location used by AbstractSurrogateModel.save / load, the   *)
(* surrogate instance itself (fit, predict, save, load, denormalize) and   *)
(* the statement order of one worker call.                                 *)
(*                                                                         *)
(* Text is modelled as a sequence of one-character strings, so that        *)
(* str(), lower(), strip(), replace() and os.path.join() are computed.     *)
(***************************************************************************)
EXTENDS Integers, Sequences, FiniteSets, TLC

VARIABLES
    \* ---- scheduler run (main, parallel_training) ----
    entry,         \* where the run starts: "main" or "parallel_training"
    run_config,    \* the configuration main reads, None in a run of parallel_training
    run_surrogates, \* config["surrogates"]
    skipped,       \* the names main reported as not recognized
    device_list,   \* config["devices"]
    tasks,         \* the task list handed to the scheduler
    failing,       \* per task: how its call fails, "none" if it returns
    pc,            \* position of the main process
    submitted,     \* number of tasks submitted to the executor so far
    state,         \* per task, its future: "unsubmitted", "pending", "finished",
                   \* "rejected", "broken"
    call,          \* per task, its call: "none", "queued", "running", "ended",
                   \* "dead", "killed", "lost"
    outcome,       \* per task: "none", "returned", "raised" (no return)
    assigned,      \* per task: the device bound to it at submission, or "none"
    device_of,     \* per task: the device argument its call was started with, or "none"
    starts,        \* per task: how many times its worker was started
    save_names,    \* per task: the names its worker passed to save
    result_queue,  \* the tasks whose result waits for the executor, oldest first
    executor_broken, \* executor._broken is set
    collected,     \* futures already yielded by as_completed
    reports        \* per task: the lines printed for it, in order

schedVars == <<entry, run_config, run_surrogates, skipped, device_list, tasks,
               failing, pc, submitted, state, call, outcome, assigned, device_of,
               starts, save_names, result_queue, executor_broken, collected,
               reports>>

VARIABLES
    \* ---- one call of train_surrogate ----
    gen_config,    \* the benchmark configuration
    gen_surrogate, \* surrogate_name
    gen_pc,        \* "start", "returned", "returned2"
    gen_tasks,     \* the list returned by the first call
    gen_tasks2     \* the list returned by a second call with the same arguments

genVars == <<gen_config, gen_surrogate, gen_pc, gen_tasks, gen_tasks2>>

VARIABLES
    \* ---- the artifact name derived by one worker call ----
    nm_task,       \* the task (mode, surrogate_name, metric)
    nm_pc,         \* "start", "named"
    nm_name        \* model_name as passed to save

nameVars == <<nm_task, nm_pc, nm_name>>

VARIABLES
    \* ---- one save followed by one load of the artifact ----
    p_base_dir,    \* base_dir of save
    p_training_id, \* training_id
    p_model_name,  \* model_name of save, model_identifier of load
    p_class,       \* self.__class__.__name__ of save, surr_name of load
    p_pc,          \* "start", "saved", "loaded"
    p_written,     \* the paths of the files save has written
    p_model_dir,   \* model_dir of load: None (the default) or a text
    p_read         \* the path load has read

pathVars == <<p_base_dir, p_training_id, p_model_name, p_class, p_pc, p_written,
              p_model_dir, p_read>>

VARIABLES
    \* ---- one call of get_data_subset ----
    s_train,       \* full_train_data [trajectory][timestep]
    s_test,        \* full_test_data [trajectory][timestep]
    s_timesteps,   \* osu_timesteps [timestep]
    s_mode,        \* mode
    s_metric,      \* metric (text)
    s_pc,          \* "start", "returned"
    s_result       \* what the call returned or raised

subsetVars == <<s_train, s_test, s_timesteps, s_mode, s_metric, s_pc, s_result>>

VARIABLES
    \* ---- one surrogate instance A (fit, predict, save) and a fresh B (load) ----
    m_class,       \* self.__class__.__name__ of both instances
    m_a,           \* A.__dict__: attribute name -> value
    m_b,           \* B.__dict__: attribute name -> value
    m_duration,    \* fit.duration of the family's fit function, None until fit ran
    m_pc,          \* "constructed", "fitted", "saved", "loaded", "predicting", "predicted"
    m_args,        \* the arguments of the save call, None before it
    m_disk,        \* the files written: path -> content
    m_raised,      \* the exception save or load raised, or "none"
    pr_self,       \* the instance predict is called on: "A", "B", "none" before
    pr_shape,      \* the shape of one sample of the output of forward
    pr_loader,     \* the batches of data_loader, in presentation order
    pr_i,          \* the loop index of predict (0-based)
    pr_predictions, \* the predictions buffer
    pr_targets,    \* the targets buffer
    pr_processed,  \* processed_samples
    pr_raised,     \* the exception predict raised, or "none"
    pr_result      \* what predict returned, None if nothing

modelVars == <<m_class, m_a, m_b, m_duration, m_pc, m_args, m_disk, m_raised,
               pr_self, pr_shape, pr_loader, pr_i, pr_predictions, pr_targets,
               pr_processed, pr_raised, pr_result>>

VARIABLES
    \* ---- one value normalized before training and denormalized afterwards ----
    nz_params,     \* self.normalisation: None or the data parameters
    nz_log10,      \* whether the dataset was log10-transformed before normalization
    nz_x,          \* the value in physical units
    nz_pc,         \* "start", "normalized", "denormalized", "again"
    nz_data,       \* the value in normalized space
    nz_out,        \* what denormalize returned
    nz_out2        \* what denormalize returned for its own output

normVars == <<nz_params, nz_log10, nz_x, nz_pc, nz_data, nz_out, nz_out2>>

VARIABLES
    \* ---- one worker process executing train_and_save_model calls ----
    w_tasks,       \* the tasks the process executes, in order
    w_devices,     \* per call: its device argument
    w_fail,        \* per call: the step that raises, or "none"
    w_k,           \* the index of the current call
    w_pc,          \* the last step the current call completed, "start", "raised"
    w_trace,       \* per call: the steps it performed, in order
    w_env,         \* os.environ["CUDA_VISIBLE_DEVICES"]: None while unset
    w_instances,   \* the number of model instances constructed so far
    w_model,       \* the instance held by the current call, 0 if none
    w_used,        \* per call: the instances passed to fit and to save
    w_artifacts    \* per call: the model names saved

workerVars == <<w_tasks, w_devices, w_fail, w_k, w_pc, w_trace, w_env, w_instances,
                w_model, w_used, w_artifacts>>

vars == <<schedVars, genVars, nameVars, pathVars, subsetVars, modelVars, normVars,
          workerVars>>

(***************************************************************************)
(* Bounds of the model                                                     *)
(***************************************************************************)
MaxDevices == 2
MaxTasks == 3
MaxList == 2
MaxModels == 3
MaxNameLen == 3
MaxMetric == 2
MaxTraj == 3
MaxT == 4
MaxStride == 5

MaxFaults == 1

(***************************************************************************)
(* Text helpers (Python str semantics)                                     *)
(***************************************************************************)
DigitChars == <<"0", "1", "2", "3", "4", "5", "6", "7", "8", "9">>

UpperChars == <<"A", "B", "C", "D", "E", "F", "G", "H", "I", "J", "K", "L", "M",
                "N", "O", "P", "Q", "R", "S", "T", "U", "V", "W", "X", "Y", "Z">>

LowerChars == <<"a", "b", "c", "d", "e", "f", "g", "h", "i", "j", "k", "l", "m",
                "n", "o", "p", "q", "r", "s", "t", "u", "v", "w", "x", "y", "z">>

IsUpper(c) == \E k \in 1..Len(UpperChars) : UpperChars[k] = c

\* str.lower() of one character
LowerChar(c) ==
    IF IsUpper(c)
    THEN LowerChars[CHOOSE k \in 1..Len(UpperChars) : UpperChars[k] = c]
    ELSE c

\* str.lower()
lower(s) == [k \in 1..Len(s) |-> LowerChar(s[k])]

\* str(n) of a natural number
RECURSIVE StrNat(_)
StrNat(n) ==
    IF n < 10 THEN <<DigitChars[n + 1]>>
    ELSE StrNat(n \div 10) \o <<DigitChars[(n % 10) + 1]>>

\* str(n) of an int
str(n) == IF n < 0 THEN <<"-">> \o StrNat(0 - n) ELSE StrNat(n)

IsDigit(c) == \E k \in 1..Len(DigitChars) : DigitChars[k] = c

DigitVal(c) == (CHOOSE k \in 1..Len(DigitChars) : DigitChars[k] = c) - 1

\* the value of a non-empty sequence of decimal digits
RECURSIVE NatVal(_)
NatVal(s) ==
    IF Len(s) = 0 THEN 0
    ELSE NatVal(SubSeq(s, 1, Len(s) - 1)) * 10 + DigitVal(s[Len(s)])

\* int(s) of a string: an optional sign and one or more decimal digits give
\* the value; any other text raises ValueError (ok = FALSE). Surrounding
\* white space and digit-group underscores are outside the input alphabet.
int(s) ==
    LET signed == Len(s) > 0 /\ s[1] \in {"-", "+"}
        body == IF signed THEN Tail(s) ELSE s
    IN  IF Len(body) > 0 /\ \A k \in 1..Len(body) : IsDigit(body[k])
        THEN [ok |-> TRUE,
              val |-> IF signed /\ s[1] = "-" THEN 0 - NatVal(body) ELSE NatVal(body)]
        ELSE [ok |-> FALSE, val |-> 0]

\* s.strip(c): every leading and every trailing c removed
RECURSIVE lstrip(_, _)
lstrip(s, c) ==
    IF Len(s) > 0 /\ s[1] = c THEN lstrip(Tail(s), c) ELSE s

RECURSIVE rstrip(_, _)
rstrip(s, c) ==
    IF Len(s) > 0 /\ s[Len(s)] = c THEN rstrip(SubSeq(s, 1, Len(s) - 1), c) ELSE s

strip(s, c) == rstrip(lstrip(s, c), c)

\* s.replace(c \o c, c): left to right, non-overlapping occurrences, one pass
RECURSIVE replace2(_, _)
replace2(s, c) ==
    IF Len(s) = 0 THEN <<>>
    ELSE IF Len(s) >= 2 /\ s[1] = c /\ s[2] = c
         THEN <<c>> \o replace2(SubSeq(s, 3, Len(s)), c)
         ELSE <<s[1]>> \o replace2(Tail(s), c)

\* Python's None and a present value
None == <<>>

Some(v) == <<v>>

(***************************************************************************)
(* Benchmark modes and tasks                                               *)
(***************************************************************************)
M_main == <<"m", "a", "i", "n">>
M_accuracy == <<"a", "c", "c", "u", "r", "a", "c", "y">>
M_interpolation == <<"i", "n", "t", "e", "r", "p", "o", "l", "a", "t", "i", "o", "n">>
M_extrapolation == <<"e", "x", "t", "r", "a", "p", "o", "l", "a", "t", "i", "o", "n">>
M_sparse == <<"s", "p", "a", "r", "s", "e">>
M_UQ == <<"U", "Q">>

\* A task tuple (mode, surrogate_name, metric, surrogate_class, config); the
\* class and the configuration are the same for every task of one surrogate
\* and are left out of the record.
Task(mode, surrogate_name, metric) ==
    [mode |-> mode, surrogate_name |-> surrogate_name, metric |-> metric]

\* range(n): 0 .. n-1, empty when n <= 0; used through its length
RangeLen(n) == IF n > 0 THEN n ELSE 0

train_surrogate(config, surrogate_name) ==
    LET acc ==
            IF config.accuracy
            THEN <<Task(M_main, surrogate_name, <<>>)>>
            ELSE <<>>
        interp ==
            IF config.interpolation.enabled
            THEN [k \in 1..Len(config.interpolation.intervals) |->
                     Task(M_interpolation, surrogate_name,
                          str(config.interpolation.intervals[k]))]
            ELSE <<>>
        extrap ==
            IF config.extrapolation.enabled
            THEN [k \in 1..Len(config.extrapolation.cutoffs) |->
                     Task(M_extrapolation, surrogate_name,
                          str(config.extrapolation.cutoffs[k]))]
            ELSE <<>>
        sparse ==
            IF config.sparse.enabled
            THEN [k \in 1..Len(config.sparse.factors) |->
                     Task(M_sparse, surrogate_name, str(config.sparse.factors[k]))]
            ELSE <<>>
        uq ==
            IF config.UQ.enabled
            THEN [i \in 1..RangeLen(config.UQ.n_models - 1) |->
                     Task(M_UQ, surrogate_name, str(i))]
            ELSE <<>>
    IN  acc \o interp \o extrap \o sparse \o uq

\* The artifact name the worker passes to save
ModelName(surrogate_name, mode, metric) ==
    replace2(strip(lower(surrogate_name) \o <<"_">> \o mode \o <<"_">> \o metric, "_"),
             "_")

(***************************************************************************)
(* Worker: train_and_save_model                                            *)
(***************************************************************************)
\* One worker call. `raises` says whether the call raises, `in_save` whether
\* it got as far as calling save (line 93) before it did; a call that does
\* not raise ends with save.
train_and_save_model(task, device, raises, in_save) ==
    [outcome |-> IF raises THEN "raised" ELSE "returned",
     saved |-> IF raises /\ ~in_save THEN <<>>
               ELSE <<ModelName(task.surrogate_name, task.mode, task.metric)>>]

(***************************************************************************)
(* Scheduler: parallel_training and main                                   *)
(***************************************************************************)
AllDevices == <<"cuda:0", "cuda:1", "cuda:2", "cuda:3", "cuda:4", "cuda:5">>

DevicePools ==
    {<<"cpu">>, SubSeq(AllDevices, 1, MaxDevices)}

SchedSurrogate == <<"F", "C", "N", "N">>

SchedConfigs ==
    [accuracy : BOOLEAN,
     interpolation : [enabled : {TRUE}, intervals : {<<>>}],
     extrapolation : [enabled : {FALSE}, cutoffs : {<<50>>}],
     sparse : [enabled : {FALSE}, factors : {<<2>>}],
     UQ : [enabled : {TRUE}, n_models : {1, MaxTasks}]]

\* the lists train_surrogate returns, as parallel_training is handed them
SchedTaskLists ==
    {l \in {train_surrogate(c, SchedSurrogate) : c \in SchedConfigs} :
        Len(l) <= MaxTasks}

\* a class object of surrogate_classes: no text is equal to it
Class(class_name) == <<"class " \o class_name>>

\* surrogates/surrogate_classes.py: a list of class objects
surrogate_classes ==
    <<Class("MultiONet"), Class("FullyConnected"), Class("LatentNeuralODE"),
      Class("LatentPoly")>>

\* x in list
InList(x, list) == \E k \in 1..Len(list) : list[k] = x

\* main, lines 171-178: the loop over config["surrogates"]. A name that is
\* not in surrogate_classes is reported and skipped; for one that is,
\* surrogate_classes[surrogate_name] indexes a list with it (TypeError).
RECURSIVE main_tasks(_, _)
main_tasks(config, names) ==
    IF names = <<>>
    THEN [raised |-> "none", tasks |-> <<>>, skipped |-> <<>>]
    ELSE LET before == main_tasks(config, SubSeq(names, 1, Len(names) - 1))
             surrogate_name == names[Len(names)]
         IN  IF before.raised # "none" THEN before
             ELSE IF InList(surrogate_name, surrogate_classes)
             THEN [before EXCEPT !.raised = "TypeError"]
             ELSE [before EXCEPT !.skipped = Append(@, surrogate_name)]

\* config["surrogates"] of a run
RunSurrogates ==
    {<<>>, <<SchedSurrogate>>, <<<<"M", "u", "l", "t", "i", "O", "N", "e", "t">>>>,
     <<SchedSurrogate, <<"M", "u", "l", "t", "i", "O", "N", "e", "t">>>>}

\* how the call of a task ends other than by returning: it raises a subclass
\* of Exception, it raises one that the parent process cannot rebuild from
\* its pickled form ("unloadable"), it raises SystemExit (a BaseException that
\* is no Exception), its process exits (os._exit or a kill), or its arguments
\* cannot be pickled
FailKinds == {"Exception", "unloadable", "SystemExit", "exit", "unpicklable"}

\* the kinds where the call raises
Raising == {"Exception", "unloadable", "SystemExit"}

\* the calls of a run that fail do so in the same way
Failings(n) ==
    UNION {{f \in [1..n -> {kind, "none"}] :
               Cardinality({i \in 1..n : f[i] # "none"}) <= MaxFaults} :
           kind \in FailKinds}

N == Len(tasks)

\* Mutant of max_workers: the pool is one process larger than the device pool
max_workers_OneMore(devs) == Len(devs) + 1

\* ProcessPoolExecutor(max_workers=len(device_list))
max_workers(devs) == Len(devs)

\* device_list[i % len(device_list)] for the task at 0-based index i - 1
SubmitDevice(i, devs) == devs[((i - 1) % Len(devs)) + 1]

\* device_list[0]
SeqDevice(devs) == devs[1]

\* The try/except Exception around future.result(), given what the future
\* holds ("returned", "Exception" or "BaseException"): what is printed, and
\* whether the exception leaves parallel_training.
HandleResult(res) ==
    IF res = "returned" THEN [kind |-> "Completed", escapes |-> FALSE]
    ELSE IF res = "Exception" THEN [kind |-> "Exception", escapes |-> FALSE]
    ELSE [kind |-> "none", escapes |-> TRUE]

\* print_task = task[:3]
print_task(task) == <<task.mode, task.surrogate_name, task.metric>>

\* the tasks that have started and whose call is not over
Running == {i \in 1..N : call[i] \in {"running", "dead"}}

\* the executor is broken
Broken == executor_broken

\* the future of task i is done: its result was taken ("finished"), its arguments
\* could not be pickled ("rejected"), or the executor broke ("broken")
FutureDone(i) == state[i] \in {"finished", "rejected", "broken"}

\* what future.result() gives: the return, or the exception it re-raises
\* (the call's own, a pickling error, or BrokenProcessPool)
FutureResult(i) ==
    IF state[i] = "finished" /\ outcome[i] = "returned" THEN "returned"
    ELSE IF state[i] = "finished" /\ failing[i] = "SystemExit" THEN "BaseException"
    ELSE "Exception"

\* the executor exists and its processes work: from the first submit until
\* the with block has been left
PoolLive == pc \in {"submit", "collect", "raising"}

\* A run starts at main, with the configuration read at import, or at
\* parallel_training, called with a task list and a device list
SchedInit ==
    /\ device_list \in DevicePools
    /\ \/ /\ entry = "main"
          /\ run_config \in {Some(c) : c \in SchedConfigs}
          /\ run_surrogates \in RunSurrogates
          /\ tasks = <<>>
          /\ failing = <<>>
          /\ pc = "main"
       \/ /\ entry = "parallel_training"
          /\ run_config = None
          /\ run_surrogates = <<>>
          /\ tasks \in SchedTaskLists
          /\ failing \in Failings(Len(tasks))
          /\ pc = "submit"
    /\ skipped = <<>>
    /\ submitted = 0
    /\ state = [i \in 1..Len(tasks) |-> "unsubmitted"]
    /\ call = [i \in 1..Len(tasks) |-> "none"]
    /\ outcome = [i \in 1..Len(tasks) |-> "none"]
    /\ assigned = [i \in 1..Len(tasks) |-> "none"]
    /\ device_of = [i \in 1..Len(tasks) |-> "none"]
    /\ starts = [i \in 1..Len(tasks) |-> 0]
    /\ save_names = [i \in 1..Len(tasks) |-> <<>>]
    /\ result_queue = <<>>
    /\ executor_broken = FALSE
    /\ collected = {}
    /\ reports = [i \in 1..Len(tasks) |-> <<>>]

\* main, lines 171-178: tasks is built from config["surrogates"]
MainBuild ==
    /\ pc = "main"
    /\ LET r == main_tasks(run_config[1], run_surrogates)
           n == Len(r.tasks)
       IN  /\ tasks' = r.tasks
           /\ skipped' = r.skipped
           /\ pc' = IF r.raised # "none" THEN "aborted" ELSE "dispatch"
           /\ failing' = [i \in 1..n |-> "none"]
           /\ state' = [i \in 1..n |-> "unsubmitted"]
           /\ call' = [i \in 1..n |-> "none"]
           /\ outcome' = [i \in 1..n |-> "none"]
           /\ assigned' = [i \in 1..n |-> "none"]
           /\ device_of' = [i \in 1..n |-> "none"]
           /\ starts' = [i \in 1..n |-> 0]
           /\ save_names' = [i \in 1..n |-> <<>>]
           /\ reports' = [i \in 1..n |-> <<>>]
    /\ UNCHANGED <<device_list, executor_broken, entry, run_config, run_surrogates, submitted,
                   result_queue, collected>>

\* main, line 179: if len(device_list) > 1
MainDispatch ==
    /\ pc = "dispatch"
    /\ pc' = IF Len(device_list) > 1 THEN "submit" ELSE "seq"
    /\ UNCHANGED <<device_list, executor_broken, assigned, entry, run_config, run_surrogates, skipped,
                   tasks, failing, submitted, state, call, outcome,
                   device_of, starts, save_names, result_queue, collected, reports>>

\* main, lines 182-184: train_and_save_model(*task, device_list[0]) for each
\* task in order, in the process of main; nothing catches what a call raises,
\* so the first call that does not return ends the loop and main; that call
\* may or may not have reached save
SeqLoop ==
    /\ pc = "seq"
    /\ \E in_save \in BOOLEAN :
       LET Ends(i) == failing[i] \in Raising \cup {"exit"}
           last == IF \E i \in 1..N : Ends(i)
                   THEN CHOOSE i \in 1..N : Ends(i) /\ \A j \in 1..(i - 1) : ~Ends(j)
                   ELSE N
           r(i) == train_and_save_model(tasks[i], SeqDevice(device_list), Ends(i), in_save)
       IN  /\ state' = [i \in 1..N |-> IF i <= last THEN "finished" ELSE state[i]]
           /\ call' = [i \in 1..N |-> IF i <= last THEN "ended" ELSE call[i]]
           /\ assigned' = [i \in 1..N |->
                              IF i <= last THEN SeqDevice(device_list) ELSE assigned[i]]
           /\ device_of' = [i \in 1..N |->
                               IF i <= last THEN SeqDevice(device_list) ELSE device_of[i]]
           /\ starts' = [i \in 1..N |-> IF i <= last THEN starts[i] + 1 ELSE starts[i]]
           /\ outcome' = [i \in 1..N |-> IF i <= last THEN r(i).outcome ELSE outcome[i]]
           /\ save_names' = [i \in 1..N |->
                                IF i <= last THEN save_names[i] \o r(i).saved
                                ELSE save_names[i]]
           /\ pc' = IF \E i \in 1..N : Ends(i) THEN "aborted" ELSE "done"
    /\ UNCHANGED <<device_list, executor_broken, entry, run_config, run_surrogates, skipped,
                   tasks, failing, submitted, result_queue, collected, reports>>

\* executor.submit(train_and_save_model, *task, device_list[i % len(device_list)]);
\* on a broken executor submit raises BrokenProcessPool, which nothing catches
CanSubmit == pc = "submit" /\ submitted < N

Submit ==
    /\ CanSubmit
    /\ IF Broken
       THEN /\ pc' = "raising"
            /\ UNCHANGED <<state, assigned, submitted>>
       ELSE LET i == submitted + 1 IN
            /\ state' = [state EXCEPT ![i] = "pending"]
            /\ assigned' = [assigned EXCEPT ![i] = SubmitDevice(i, device_list)]
            /\ submitted' = i
            /\ pc' = pc
    /\ UNCHANGED <<device_list, executor_broken, entry, run_config, run_surrogates, skipped,
                   tasks, failing, call, outcome, device_of, starts, save_names,
                   result_queue, collected, reports>>

\* the dict comprehension is complete; as_completed begins
CanEndSubmit == pc = "submit" /\ submitted = N

EndSubmit ==
    /\ CanEndSubmit
    /\ pc' = "collect"
    /\ UNCHANGED <<device_list, executor_broken, assigned, entry, run_config, run_surrogates, skipped,
                   tasks, failing, submitted, state, call, outcome,
                   device_of, starts, save_names, result_queue, collected, reports>>

\* the calls that a worker process is executing
Executing == {i \in 1..N : call[i] = "running"}

\* the worker processes that have exited inside a call
Dead == {i \in 1..N : call[i] = "dead"}

\* the submitted tasks whose call has not been started and can still be:
\* the work items of the executor
Waiting == {i \in 1..N : state[i] = "pending" /\ call[i] = "none"}

\* the size of the executor's call queue: max_workers + EXTRA_QUEUED_CALLS
call_queue_size(devs) == max_workers(devs) + 1

\* the executor pickles the oldest work items into its call queue; an item
\* that cannot be pickled fails there: its future is done with the error and
\* its call is never started
CanReject(i) ==
    /\ PoolLive /\ ~Broken
    /\ i \in Waiting /\ failing[i] = "unpicklable"
    /\ \A j \in Waiting : j < i => failing[j] # "unpicklable"
    /\ Cardinality({j \in Waiting : j < i}) < call_queue_size(device_list)

FeedRejects(i) ==
    /\ CanReject(i)
    /\ state' = [state EXCEPT ![i] = "rejected"]
    /\ UNCHANGED <<device_list, executor_broken, assigned, entry, run_config, run_surrogates, skipped,
                   tasks, failing, pc, submitted, call, outcome,
                   device_of, starts, save_names, result_queue, collected, reports>>

\* a free worker process of the pool takes the oldest item of the call queue;
\* a process that has exited is not replaced. On a broken executor the
\* processes that still live go on taking the items the queue holds.
CanStart(i) ==
    /\ PoolLive
    /\ Cardinality(Executing) + Cardinality(Dead) < max_workers(device_list)
    /\ IF Broken
       THEN /\ call[i] = "queued"
            /\ \A j \in 1..(i - 1) : call[j] # "queued"
       ELSE /\ i \in Waiting /\ failing[i] # "unpicklable"
            /\ \A j \in Waiting : j < i => failing[j] = "unpicklable"

WorkerStart(i) ==
    /\ CanStart(i)
    /\ call' = [call EXCEPT ![i] = "running"]
    /\ starts' = [starts EXCEPT ![i] = @ + 1]
    /\ device_of' = [device_of EXCEPT ![i] = assigned[i]]
    /\ UNCHANGED <<device_list, executor_broken, assigned, entry, run_config, run_surrogates, skipped,
                   tasks, failing, pc, submitted, state, outcome,
                   save_names, result_queue, collected, reports>>

\* the call of task i returns or raises in its worker process, which puts the
\* result (the value or the exception) on the result queue and is free again;
\* a broken executor reads no result
CanSend(i) == PoolLive /\ call[i] = "running" /\ failing[i] # "exit"

WorkerSends(i) ==
    /\ CanSend(i)
    /\ \E in_save \in BOOLEAN :
        LET r == train_and_save_model(tasks[i], device_of[i],
                                      failing[i] \in Raising, in_save) IN
        /\ outcome' = [outcome EXCEPT ![i] = r.outcome]
        /\ save_names' = [save_names EXCEPT ![i] = @ \o r.saved]
    /\ call' = [call EXCEPT ![i] = "ended"]
    /\ result_queue' = IF Broken THEN result_queue ELSE Append(result_queue, i)
    /\ UNCHANGED <<device_list, executor_broken, assigned, entry, run_config, run_surrogates, skipped,
                   tasks, failing, pc, submitted, state, device_of,
                   starts, collected, reports>>

\* the executor takes the oldest result off the result queue and rebuilds
\* it: the future of that task becomes done
CanFinish(i) ==
    /\ PoolLive /\ ~Broken
    /\ result_queue # <<>> /\ Head(result_queue) = i
    /\ failing[i] # "unloadable"

WorkerFinish(i) ==
    /\ CanFinish(i)
    /\ state' = [state EXCEPT ![i] = "finished"]
    /\ result_queue' = Tail(result_queue)
    /\ UNCHANGED <<device_list, executor_broken, assigned, entry, run_config, run_surrogates, skipped,
                   tasks, failing, pc, submitted, call, outcome, device_of,
                   starts, save_names, collected, reports>>

\* the process of task i exits inside the call, before save was called or
\* after
CanDie(i) == PoolLive /\ call[i] = "running" /\ failing[i] = "exit"

WorkerDies(i) ==
    /\ CanDie(i)
    /\ \E in_save \in BOOLEAN :
        LET r == train_and_save_model(tasks[i], device_of[i], TRUE, in_save) IN
        /\ outcome' = [outcome EXCEPT ![i] = r.outcome]
        /\ save_names' = [save_names EXCEPT ![i] = @ \o r.saved]
    /\ call' = [call EXCEPT ![i] = "dead"]
    /\ UNCHANGED <<device_list, executor_broken, assigned, entry, run_config, run_surrogates, skipped,
                   tasks, failing, pc, submitted, state, device_of,
                   starts, result_queue, collected, reports>>

\* the executor breaks: with no result left to take it sees that a process
\* has exited, or the oldest result cannot be rebuilt. It is marked broken,
\* so that submits fail from now on; the results still queued are not read
\* and the call queue is no longer filled: the waiting items that it holds
\* stay there, the others are never handed to a worker.
CanBreak ==
    /\ PoolLive /\ ~Broken
    /\ \/ Dead # {} /\ result_queue = <<>>
       \/ result_queue # <<>> /\ failing[Head(result_queue)] = "unloadable"

ExecutorBreaks ==
    /\ CanBreak
    /\ executor_broken' = TRUE
    /\ call' = [j \in 1..N |->
                   IF j \notin Waiting THEN call[j]
                   ELSE IF /\ failing[j] # "unpicklable"
                           /\ Cardinality({k \in Waiting : k < j}) < call_queue_size(device_list)
                        THEN "queued"
                        ELSE "lost"]
    /\ result_queue' = <<>>
    /\ UNCHANGED <<device_list, assigned, entry, run_config, run_surrogates, skipped,
                   tasks, failing, pc, submitted, state, outcome, device_of,
                   starts, save_names, collected, reports>>

\* the futures of the executor's pending work items: submitted and not done
Pending == {i \in 1..N : state[i] = "pending"}

\* the broken executor fails its pending work items one after the other, in
\* the order they were submitted: the future of the oldest one is done with
\* BrokenProcessPool, whether its call waits, runs or has ended. The main
\* process runs meanwhile and may collect a failed future while later ones
\* are still pending.
CanFail(i) ==
    /\ PoolLive /\ Broken
    /\ i \in Pending
    /\ \A j \in Pending : i <= j

FailPending(i) ==
    /\ CanFail(i)
    /\ state' = [state EXCEPT ![i] = "broken"]
    /\ UNCHANGED <<device_list, executor_broken, assigned, entry, run_config, run_surrogates, skipped,
                   tasks, failing, pc, submitted, call, outcome,
                   device_of, starts, save_names, result_queue, collected, reports>>

\* the worker processes of a broken executor have not all been terminated
WorkersLeft == Broken /\ \E i \in 1..N : call[i] \in {"running", "queued"}

\* the broken executor, after it has failed every pending future, terminates
\* its processes, wherever each is in its call (the calls of `in_save` have
\* called save); what the call queue still holds is never started
CanTerminate == PoolLive /\ WorkersLeft /\ Pending = {}

TerminateWorkers ==
    /\ CanTerminate
    /\ \E in_save \in SUBSET Executing :
        save_names' = [j \in 1..N |->
                          IF j \in in_save
                          THEN save_names[j] \o
                               train_and_save_model(tasks[j], device_of[j], TRUE, TRUE).saved
                          ELSE save_names[j]]
    /\ call' = [j \in 1..N |->
                   IF call[j] = "running" THEN "killed"
                   ELSE IF call[j] = "queued" THEN "lost"
                   ELSE call[j]]
    /\ UNCHANGED <<device_list, executor_broken, assigned, entry, run_config, run_surrogates, skipped,
                   tasks, failing, pc, submitted, state, outcome, device_of,
                   starts, result_queue, collected, reports>>

\* one iteration of: for future in as_completed(future_to_task)
CanCollect(i) == pc = "collect" /\ FutureDone(i) /\ i \notin collected

Collect(i) ==
    /\ CanCollect(i)
    /\ LET h == HandleResult(FutureResult(i)) IN
        /\ collected' = collected \cup {i}
        /\ reports' = IF h.escapes THEN reports
                      ELSE [reports EXCEPT
                              ![i] = Append(@, [kind |-> h.kind,
                                                task |-> print_task(tasks[i])])]
        /\ pc' = IF h.escapes THEN "raising" ELSE pc
    /\ UNCHANGED <<device_list, executor_broken, assigned, entry, run_config, run_surrogates, skipped,
                   tasks, failing, submitted, state, call, outcome,
                   device_of, starts, save_names, result_queue>>

\* as_completed is exhausted; the with block shuts the executor down, which
\* waits until the executor has stopped its processes
CanPoolReturn == pc = "collect" /\ collected = 1..N /\ ~WorkersLeft

PoolReturn ==
    /\ CanPoolReturn
    /\ pc' = "done"
    /\ UNCHANGED <<device_list, executor_broken, assigned, entry, run_config, run_surrogates, skipped,
                   tasks, failing, submitted, state, call, outcome,
                   device_of, starts, save_names, result_queue, collected, reports>>

\* an exception is leaving the with block: the executor's shutdown waits
\* until every submitted future is done and the executor has stopped its
\* processes, then the exception leaves parallel_training
CanPoolRaise ==
    /\ pc = "raising"
    /\ \A i \in 1..submitted : FutureDone(i)
    /\ ~WorkersLeft

PoolRaise ==
    /\ CanPoolRaise
    /\ pc' = "aborted"
    /\ UNCHANGED <<device_list, executor_broken, assigned, entry, run_config, run_surrogates, skipped,
                   tasks, failing, submitted, state, call, outcome,
                   device_of, starts, save_names, result_queue, collected, reports>>

\* the run goes through the executor
PoolPath == entry = "parallel_training" \/ Len(device_list) > 1

RunOver == pc \in {"done", "aborted"}

(***************************************************************************)
(* Task generator run: train_surrogate called on a configuration           *)
(***************************************************************************)
\* Sequences over S of length at most n
SeqsUpTo(S, n) == UNION {[1..k -> S] : k \in 0..n}

IntervalValues == {0, 2, 5}
CutoffValues == {50}
FactorValues == {3}

GenConfigs ==
    [accuracy : BOOLEAN,
     interpolation : [enabled : BOOLEAN, intervals : SeqsUpTo(IntervalValues, MaxList)],
     extrapolation : [enabled : BOOLEAN, cutoffs : SeqsUpTo(CutoffValues, MaxList)],
     sparse : [enabled : BOOLEAN, factors : SeqsUpTo(FactorValues, MaxList)],
     UQ : [enabled : BOOLEAN, n_models : 0..MaxModels]]

GenSurrogates == {SchedSurrogate}

GenInit ==
    /\ gen_config \in GenConfigs
    /\ gen_surrogate \in GenSurrogates
    /\ gen_pc = "start"
    /\ gen_tasks = <<>>
    /\ gen_tasks2 = <<>>

GenIdle ==
    /\ gen_config = [accuracy |-> FALSE]
    /\ gen_surrogate = <<>>
    /\ gen_pc = "idle"
    /\ gen_tasks = <<>>
    /\ gen_tasks2 = <<>>

\* tasks = train_surrogate(config, surrogate_class, surrogate_name)
Generate ==
    /\ gen_pc = "start"
    /\ gen_tasks' = train_surrogate(gen_config, gen_surrogate)
    /\ gen_pc' = "returned"
    /\ UNCHANGED <<gen_config, gen_surrogate, gen_tasks2>>

\* a second call with the identical configuration
GenerateAgain ==
    /\ gen_pc = "returned"
    /\ gen_tasks2' = train_surrogate(gen_config, gen_surrogate)
    /\ gen_pc' = "returned2"
    /\ UNCHANGED <<gen_config, gen_surrogate, gen_tasks>>

(***************************************************************************)
(* Artifact name: the name derivation of one worker call                   *)
(***************************************************************************)
NameAlphabet == {"a", "B", "_"}

NameSurrogates == SeqsUpTo(NameAlphabet, MaxNameLen) \ {<<>>}

\* The tasks train_surrogate can produce for a surrogate name: the task of the
\* main model with the empty metric, and the tasks whose metric is str(int).
NameTasks ==
    {Task(M_main, n, <<>>) : n \in NameSurrogates}
    \cup {Task(m, n, str(k)) :
            m \in {M_interpolation, M_extrapolation, M_sparse, M_UQ},
            n \in NameSurrogates,
            k \in 1..MaxMetric}

NameInit ==
    /\ nm_task \in NameTasks
    /\ nm_pc = "start"
    /\ nm_name = <<>>

NameIdle ==
    /\ nm_task = Task(<<>>, <<>>, <<>>)
    /\ nm_pc = "idle"
    /\ nm_name = <<>>

\* model_name = f"{surrogate_name.lower()}_{mode}_{metric}".strip("_")
\* model_name = model_name.replace("__", "_")
DeriveName ==
    /\ nm_pc = "start"
    /\ nm_name' = ModelName(nm_task.surrogate_name, nm_task.mode, nm_task.metric)
    /\ nm_pc' = "named"
    /\ UNCHANGED nm_task

(***************************************************************************)
(* Artifact location: AbstractSurrogateModel.save and load                 *)
(***************************************************************************)
\* os.path.join(path, b) for two components (posixpath)
join2(path, b) ==
    IF Len(b) > 0 /\ b[1] = "/" THEN b
    ELSE IF Len(path) = 0 \/ path[Len(path)] = "/" THEN path \o b
    ELSE path \o <<"/">> \o b

\* os.path.join(a, *p)
RECURSIVE path_join(_)
path_join(parts) ==
    IF Len(parts) = 1 THEN parts[1]
    ELSE join2(path_join(SubSeq(parts, 1, Len(parts) - 1)), parts[Len(parts)])

\* utils.create_model_dir: the directory it creates and returns
create_model_dir(base_dir, subfolder, unique_id) ==
    path_join(<<base_dir, subfolder, unique_id>>)

EXT_yaml == <<".", "y", "a", "m", "l">>
EXT_pth == <<".", "p", "t", "h">>

\* save: the directory of the artifact, as save computes it
save_model_dir(base_dir, training_id, class_name) ==
    LET subfolder == path_join(<<base_dir, training_id, class_name>>)
    IN  create_model_dir(base_dir, subfolder, <<>>)

\* save: the two files it writes
save_paths(model_name, base_dir, training_id, class_name) ==
    LET model_dir == save_model_dir(base_dir, training_id, class_name)
    IN  {path_join(<<model_dir, model_name \o EXT_yaml>>),
         path_join(<<model_dir, model_name \o EXT_pth>>)}

\* os.getcwd(): the working directory of the process, an absolute path
getcwd == <<"/", "w">>

\* load: the state file it reads; model_dir is None (the default) or a text
load_path(training_id, surr_name, model_identifier, model_dir) ==
    IF model_dir = None
    THEN path_join(<<getcwd, <<"t", "r", "a", "i", "n", "e", "d">>, training_id,
                     surr_name, model_identifier \o EXT_pth>>)
    ELSE path_join(<<model_dir[1], training_id, surr_name,
                     model_identifier \o EXT_pth>>)

\* The components of a path text, split at "/"
RECURSIVE SplitPath(_)
SplitPath(s) ==
    IF Len(s) = 0 THEN << <<>> >>
    ELSE LET r == SplitPath(Tail(s))
         IN  IF s[1] = "/" THEN << <<>> >> \o r
             ELSE << <<s[1]>> \o r[1] >> \o Tail(r)

\* the directory reached from `dir` (a sequence of names below the root) by
\* the components `comps`: an empty one and "." stay, ".." goes up
RECURSIVE walk(_, _)
walk(dir, comps) ==
    IF comps = <<>> THEN dir
    ELSE LET c == Head(comps)
             next == IF c \in {<<>>, <<".">>} THEN dir
                     ELSE IF c = <<".", ".">>
                     THEN SubSeq(dir, 1, IF dir = <<>> THEN 0 ELSE Len(dir) - 1)
                     ELSE Append(dir, c)
         IN  walk(next, Tail(comps))

\* the file a path text names when the process opens it: a relative path
\* starts at the working directory
realpath(path) ==
    IF Len(path) > 0 /\ path[1] = "/"
    THEN walk(<<>>, SplitPath(path))
    ELSE walk(walk(<<>>, SplitPath(getcwd)), SplitPath(path))

BaseDirs ==
    {<<"/", "t">>,
     <<"/", "t", "/">>,
     <<"/">>,
     <<"o">>,
     <<"o", "/">>,
     <<".">>,
     <<>>,
     <<".", "/", "o">>}

TrainingIds == {<<"T", "e", "s", "t", "I", "D">>, <<"r", "1">>}

PathModelNames == {<<"f", "c", "n", "n", "_", "m", "a", "i", "n">>, <<"X", "7">>}

PathClassNames == {<<"M", "u", "l", "t", "i", "O", "N", "e", "t">>, <<"L", "a", "t", "e", "n", "t", "P", "o", "l", "y">>}

PathInit ==
    /\ p_base_dir \in BaseDirs
    /\ p_training_id \in TrainingIds
    /\ p_model_name \in PathModelNames
    /\ p_class \in PathClassNames
    /\ p_pc = "start"
    /\ p_written = {}
    /\ p_model_dir = None
    /\ p_read = <<>>

PathIdle ==
    /\ p_base_dir = <<>>
    /\ p_training_id = <<>>
    /\ p_model_name = <<>>
    /\ p_class = <<>>
    /\ p_pc = "idle"
    /\ p_written = {}
    /\ p_model_dir = None
    /\ p_read = <<>>

\* instance.save(model_name, base_dir, training_id, data_params)
Save ==
    /\ p_pc = "start"
    /\ p_written' = save_paths(p_model_name, p_base_dir, p_training_id, p_class)
    /\ p_pc' = "saved"
    /\ UNCHANGED <<p_base_dir, p_training_id, p_model_name, p_class, p_model_dir,
                   p_read>>

\* new_instance.load(training_id, surr_name = class name,
\*                   model_identifier = model_name, model_dir), where model_dir
\* is left at its default or is base_dir
Load ==
    /\ p_pc = "saved"
    /\ p_model_dir' \in {None, Some(p_base_dir)}
    /\ p_read' = load_path(p_training_id, p_class, p_model_name, p_model_dir')
    /\ p_pc' = "loaded"
    /\ UNCHANGED <<p_base_dir, p_training_id, p_model_name, p_class, p_written>>

(***************************************************************************)
(* Data subset selector: get_data_subset                                   *)
(***************************************************************************)
\* a[::k] for k # 0 (Python slice with a step)
SliceStep(a, k) ==
    IF k > 0
    THEN [j \in 1..((Len(a) + k - 1) \div k) |-> a[(j - 1) * k + 1]]
    ELSE [j \in 1..((Len(a) + (0 - k) - 1) \div (0 - k)) |->
             a[Len(a) - (j - 1) * (0 - k)]]

\* Mutant of SliceFirst: the cutoff index itself is kept as well
SliceFirst_Inclusive(a, k) ==
    IF k >= 0
    THEN SubSeq(a, 1, IF k + 1 < Len(a) THEN k + 1 ELSE Len(a))
    ELSE SubSeq(a, 1, Len(a) + k + 1)

\* a[:k] (Python slice with a stop, which may be negative)
SliceFirst(a, k) ==
    IF k >= 0
    THEN SubSeq(a, 1, IF k < Len(a) THEN k ELSE Len(a))
    ELSE SubSeq(a, 1, Len(a) + k)

Returned(train, test, timesteps) ==
    [raised |-> "none", train_data |-> train, test_data |-> test,
     timesteps |-> timesteps]

Raised(exc) ==
    [raised |-> exc, train_data |-> <<>>, test_data |-> <<>>, timesteps |-> <<>>]

get_data_subset(full_train_data, full_test_data, osu_timesteps, mode, metric) ==
    LET m == int(metric) IN
    IF mode = M_interpolation
    THEN IF ~m.ok \/ m.val = 0 THEN Raised("ValueError")
         ELSE Returned([i \in 1..Len(full_train_data) |->
                           SliceStep(full_train_data[i], m.val)],
                       [i \in 1..Len(full_test_data) |->
                           SliceStep(full_test_data[i], m.val)],
                       SliceStep(osu_timesteps, m.val))
    ELSE IF mode = M_extrapolation
    THEN IF ~m.ok THEN Raised("ValueError")
         ELSE Returned([i \in 1..Len(full_train_data) |->
                           SliceFirst(full_train_data[i], m.val)],
                       [i \in 1..Len(full_test_data) |->
                           SliceFirst(full_test_data[i], m.val)],
                       SliceFirst(osu_timesteps, m.val))
    ELSE IF mode = M_sparse
    THEN IF ~m.ok \/ m.val = 0 THEN Raised("ValueError")
         ELSE Returned(SliceStep(full_train_data, m.val),
                       SliceStep(full_test_data, m.val),
                       osu_timesteps)
    ELSE Returned(full_train_data, full_test_data, osu_timesteps)

\* A data array [trajectory][timestep]; each entry stands for the vector of
\* chemical quantities of that trajectory at that timestep
DataArray(split, n, T) == [i \in 1..n |-> [j \in 1..T |-> <<split, i, j>>]]

M_unknown == <<"x">>

SubsetModes ==
    {M_main, M_accuracy, M_interpolation, M_extrapolation, M_sparse, M_UQ, M_unknown}

SubsetMetrics == {str(k) : k \in (0 - 1)..MaxStride} \cup {<<>>, <<"x">>}

SubsetInit ==
    /\ \E n \in 1..MaxTraj, T \in 1..MaxT :
          /\ s_train = DataArray("train", n, T)
          /\ s_timesteps = [j \in 1..T |-> j]
          /\ \E n2 \in 1..MaxTraj : s_test = DataArray("test", n2, T)
    /\ s_mode \in SubsetModes
    /\ s_metric \in SubsetMetrics
    /\ s_pc = "start"
    /\ s_result = Raised("none")

SubsetIdle ==
    /\ s_train = <<>>
    /\ s_test = <<>>
    /\ s_timesteps = <<>>
    /\ s_mode = <<>>
    /\ s_metric = <<>>
    /\ s_pc = "idle"
    /\ s_result = Raised("none")

\* train_data, test_data, timesteps = get_data_subset(...)
SelectSubset ==
    /\ s_pc = "start"
    /\ s_result' = get_data_subset(s_train, s_test, s_timesteps, s_mode, s_metric)
    /\ s_pc' = "returned"
    /\ UNCHANGED <<s_train, s_test, s_timesteps, s_mode, s_metric>>

(***************************************************************************)
(* The surrogate instance: AbstractSurrogateModel                           *)
(***************************************************************************)
\* attribute names (keys of self.__dict__) and hyperparameter names
Attr ==
    [train_loss |-> <<"t", "r", "a", "i", "n", "_", "l", "o", "s", "s">>,
     test_loss |-> <<"t", "e", "s", "t", "_", "l", "o", "s", "s">>,
     MAE |-> <<"M", "A", "E">>,
     normalisation |-> <<"n", "o", "r", "m", "a", "l", "i", "s", "a", "t", "i", "o", "n">>,
     device |-> <<"d", "e", "v", "i", "c", "e">>,
     n_chemicals |-> <<"n", "_", "c", "h", "e", "m", "i", "c", "a", "l", "s">>,
     n_timesteps |-> <<"n", "_", "t", "i", "m", "e", "s", "t", "e", "p", "s">>,
     config |-> <<"c", "o", "n", "f", "i", "g">>,
     train_duration |-> <<"t", "r", "a", "i", "n", "_", "d", "u", "r", "a", "t", "i", "o", "n">>,
     training |-> <<"t", "r", "a", "i", "n", "i", "n", "g">>,
     n_train_samples |-> <<"n", "_", "t", "r", "a", "i", "n", "_", "s", "a", "m", "p", "l", "e", "s">>,
     parameters |-> <<"_", "p", "a", "r", "a", "m", "e", "t", "e", "r", "s">>,
     state_dict |-> <<"s", "t", "a", "t", "e", "_", "d", "i", "c", "t">>]

Field ==
    [latent_features |-> <<"l", "a", "t", "e", "n", "t", "_", "f", "e", "a", "t", "u", "r", "e", "s">>,
     learning_rate |-> <<"l", "e", "a", "r", "n", "i", "n", "g", "_", "r", "a", "t", "e">>,
     ode_activation |-> <<"o", "d", "e", "_", "a", "c", "t", "i", "v", "a", "t", "i", "o", "n">>,
     layers_factor |-> <<"l", "a", "y", "e", "r", "s", "_", "f", "a", "c", "t", "o", "r">>,
     ode_tanh_reg |-> <<"o", "d", "e", "_", "t", "a", "n", "h", "_", "r", "e", "g">>,
     coder_activation |-> <<"c", "o", "d", "e", "r", "_", "a", "c", "t", "i", "v", "a", "t", "i", "o", "n">>,
     masses |-> <<"m", "a", "s", "s", "e", "s">>]

\* hasattr, setattr, delattr on an attribute dictionary
hasattr(obj, k) == k \in DOMAIN obj

setattr(obj, k, v) == [x \in DOMAIN obj \cup {k} |-> IF x = k THEN v ELSE obj[x]]

delattr(obj, k) == [x \in DOMAIN obj \ {k} |-> obj[x]]

\* dict.pop(key, None): the dictionary without the key
pop(d, k) == [x \in DOMAIN d \ {k} |-> d[x]]

\* k.startswith("_")
startswith_underscore(k) == Len(k) > 0 /\ k[1] = "_"

N_CHEMICALS == 10

N_TIMESTEPS == 50

\* a plain value and a torch.nn.Module value of a configuration field
Plain(v) == [module |-> FALSE, v |-> v]

Module(class_name) == [module |-> TRUE, v |-> class_name]

\* the families whose instances are built, from surrogate_classes
ClassNames ==
    {<<"M", "u", "l", "t", "i", "O", "N", "e", "t">>,
     <<"L", "a", "t", "e", "n", "t", "N", "e", "u", "r", "a", "l", "O", "D", "E">>}

\* LatentNeuralODEConfig(): the dataclass with its default field values
LatentNeuralODEConfig ==
    (Field.latent_features :> Plain("9")) @@ (Field.layers_factor :> Plain("46"))
    @@ (Field.learning_rate :> Plain("0.005"))
    @@ (Field.ode_activation :> Module("Softplus"))
    @@ (Field.ode_tanh_reg :> Plain("False"))
    @@ (Field.coder_activation :> Module("ReLU"))

\* the hyperparameter dataclass a family instance holds
FamilyConfig(class_name) ==
    IF class_name = <<"M", "u", "l", "t", "i", "O", "N", "e", "t">>
    THEN (Field.learning_rate :> Plain("0.005")) @@ (Field.masses :> Plain("masses"))
    ELSE LatentNeuralODEConfig

\* AbstractSurrogateModel.__init__ after nn.Module.__init__: the instance's
\* __dict__ (self.L1 is a sub-module and lives in the private _modules)
AbstractSurrogateModel_init(device, n_chemicals, n_timesteps, config, theta) ==
    (Attr.training :> TRUE) @@ (Attr.parameters :> theta)
    @@ (Attr.train_loss :> None) @@ (Attr.test_loss :> None) @@ (Attr.MAE :> None)
    @@ (Attr.normalisation :> None) @@ (Attr.device :> device)
    @@ (Attr.n_chemicals :> n_chemicals) @@ (Attr.n_timesteps :> n_timesteps)
    @@ (Attr.config :> config) @@ (Attr.train_duration :> None)

\* model_class(device, n_chemicals, n_timesteps) of a concrete family
Construct(class_name, device, theta) ==
    AbstractSurrogateModel_init(device, N_CHEMICALS, N_TIMESTEPS,
                                FamilyConfig(class_name), theta)

\* dataclasses.asdict(self.config): field name -> value
asdict(config) == [f \in DOMAIN config |-> config[f]]

\* save, lines 245-246: nn.Module values become their class name
ModuleNames(h) == [f \in DOMAIN h |-> IF h[f].module THEN Plain(h[f].v) ELSE h[f]]

\* save, lines 249-259, for one attribute of check_attributes
CheckAttribute_KeepTimesteps(st, attr) ==
    IF hasattr(st.self, attr)
    THEN [self |-> st.self, hyperparameters |-> setattr(st.hyperparameters, attr, st.self[attr])]
    ELSE st

CheckAttribute(st, attr) ==
    IF hasattr(st.self, attr)
    THEN [self |-> IF attr = Attr.n_timesteps THEN delattr(st.self, attr) ELSE st.self,
          hyperparameters |-> setattr(st.hyperparameters, attr, st.self[attr])]
    ELSE st

\* save, lines 270-277: a tensor becomes an ndarray, an ndarray float16
Downcast(value) ==
    IF value = None THEN value
    ELSE IF value[1].kind \in {"tensor", "ndarray"}
    THEN Some([kind |-> "ndarray", dtype |-> "float16", data |-> value[1].data])
    ELSE value

\* save, lines 284-288: the attributes that are persisted
save_attributes(self) ==
    LET keys == {k \in DOMAIN self : k # Attr.state_dict /\ ~startswith_underscore(k)}
    IN  [k \in keys |-> self[k]]

\* AbstractSurrogateModel.save: the instance afterwards and the two files
save(self, model_name, base_dir, training_id, data_params, class_name, duration) ==
    LET model_dir == save_model_dir(base_dir, training_id, class_name)
        h0 == ModuleNames(pop(asdict(self[Attr.config]), Field.masses))
        st0 == [self |-> self, hyperparameters |-> h0]
        st1 == CheckAttribute(st0, Attr.n_train_samples)
        st2 == CheckAttribute(st1, Attr.n_timesteps)
        self3 == setattr(setattr(st2.self, Attr.train_duration, duration),
                         Attr.normalisation, Some(data_params))
        h3 == setattr(setattr(st2.hyperparameters, Attr.train_duration, duration),
                      Attr.normalisation, Some(data_params))
        self4 == [k \in DOMAIN self3 |->
                     IF k \in {Attr.train_loss, Attr.test_loss, Attr.MAE}
                     THEN Downcast(self3[k]) ELSE self3[k]]
        hyperparameters_path == path_join(<<model_dir, model_name \o EXT_yaml>>)
        model_path == path_join(<<model_dir, model_name \o EXT_pth>>)
        model_dict == [state_dict |-> self4[Attr.parameters],
                       attributes |-> save_attributes(self4)]
    IN  [self |-> self4,
         files |-> (hyperparameters_path :> h3) @@ (model_path :> model_dict)]

\* load, lines 323-329, given the dictionary torch.load returned
load_attributes(self, model_dict) ==
    LET attrs == model_dict.attributes
        self1 == setattr(self, Attr.parameters, model_dict.state_dict)
        self2 == [k \in DOMAIN self1 \cup DOMAIN attrs |->
                     IF k \in DOMAIN attrs /\ k # Attr.device
                     THEN attrs[k] ELSE self1[k]]
    IN  setattr(self2, Attr.training, FALSE)

\* AbstractSurrogateModel.load; torch.load opens the file the path names, which
\* is one that save wrote when both texts name the same file
load(self, training_id, surr_name, model_identifier, model_dir, disk) ==
    LET model_dict_path == load_path(training_id, surr_name, model_identifier, model_dir)
        found == {f \in DOMAIN disk : realpath(f) = realpath(model_dict_path)}
    IN  IF found # {}
        THEN [self |-> load_attributes(self, disk[CHOOSE f \in found : TRUE]),
              raised |-> "none"]
        ELSE [self |-> self, raised |-> "FileNotFoundError"]

(***************************************************************************)
(* Exact arithmetic on tensor entries: a rational is [n |-> _, d |-> _]    *)
(***************************************************************************)
RECURSIVE GCD(_, _)
GCD(a, b) == IF b = 0 THEN a ELSE GCD(b, a % b)

Rat(n, d) ==
    LET g == GCD(IF n < 0 THEN 0 - n ELSE n, IF d < 0 THEN 0 - d ELSE d)
        s == IF d < 0 THEN 0 - 1 ELSE 1
    IN  [n |-> (s * n) \div g, d |-> (s * d) \div g]

FromInt(k) == [n |-> k, d |-> 1]

RAdd(x, y) == Rat(x.n * y.d + y.n * x.d, x.d * y.d)

RSub(x, y) == Rat(x.n * y.d - y.n * x.d, x.d * y.d)

RMul(x, y) == Rat(x.n * y.n, x.d * y.d)

RDiv(x, y) == Rat(x.n * y.d, x.d * y.n)

\* dict[key] for the keys a dictionary must hold: KeyError when one is missing
HasKeys(d, keys) == \A k \in keys : k \in DOMAIN d

\* AbstractSurrogateModel.denormalize on a tensor, given as the sequence of
\* its entries: the tensor it returns, or the KeyError a missing key raises
denormalize(normalisation, data) ==
    LET Returns(f(_)) == [raised |-> "none", data |-> [k \in 1..Len(data) |-> f(data[k])]]
        KeyError == [raised |-> "KeyError", data |-> <<>>]
        Same(x) == x
    IN  IF normalisation # None
        THEN LET p == normalisation[1]
                 MinMax(x) == RAdd(RDiv(RMul(RAdd(x, FromInt(1)), RSub(p.max, p.min)),
                                        FromInt(2)), p.min)
                 Standardize(x) == RAdd(RMul(x, p.std), p.mean)
             IN  IF ~HasKeys(p, {"mode"}) THEN KeyError
                 ELSE IF p.mode = "disabled" THEN Returns(Same)
                 ELSE IF p.mode = "minmax"
                 THEN IF HasKeys(p, {"max", "min"}) THEN Returns(MinMax) ELSE KeyError
                 ELSE IF p.mode = "standardize"
                 THEN IF HasKeys(p, {"mean", "std"}) THEN Returns(Standardize) ELSE KeyError
                 ELSE Returns(Same)
        ELSE Returns(Same)

(***************************************************************************)
(* AbstractSurrogateModel.predict                                          *)
(***************************************************************************)
MaxSamples == 5

MaxBatch == 3

\* the output and the target the model yields for the j-th sample presented
Pred(j) == FromInt(j)

Targ(j) == FromInt(0 - j)

\* self.forward(inputs) on one batch
forward(inputs) ==
    [preds |-> [k \in 1..Len(inputs) |-> Pred(inputs[k])],
     targs |-> [k \in 1..Len(inputs) |-> Targ(inputs[k])]]

\* torch.zeros(size): one entry per sample slot
zeros(size) == [k \in 1..size |-> FromInt(0)]

\* buffer[lo:hi] = values
SliceAssign(buffer, lo, hi, values) ==
    [k \in 1..Len(buffer) |->
        IF lo < k /\ k <= hi /\ k - lo <= Len(values) THEN values[k - lo] ELSE buffer[k]]

\* the start of the slice the i-th batch is written to
BatchOffset(i, batch_size, first_batch_size) == i * batch_size

\* a DataLoader over n samples with the given batch size (drop_last = False):
\* samples are numbered in the order the loader presents them
LoaderLen(n, batch_size) == (n + batch_size - 1) \div batch_size

DataLoader(n, batch_size) ==
    [i \in 1..LoaderLen(n, batch_size) |->
        [k \in 1..(IF i * batch_size <= n THEN batch_size ELSE n - (i - 1) * batch_size)
            |-> (i - 1) * batch_size + k]]

Loaders == {DataLoader(n, b) : n \in 1..MaxSamples, b \in 1..MaxBatch}

\* the shapes of one sample of the model output: that of the instance, and
\* that of data with half the timesteps
OutShapes == {<<N_TIMESTEPS, N_CHEMICALS>>, <<N_TIMESTEPS \div 2, N_CHEMICALS>>}

\* tensor.reshape(-1, n_timesteps, n_chemicals) of a tensor of n samples of
\* the given shape: the entries keep their order and are regrouped into rows
\* of n_timesteps * n_chemicals entries
reshape(data, out_shape, n_timesteps, n_chemicals) ==
    LET numel == Len(data) * out_shape[1] * out_shape[2]
        row == n_timesteps * n_chemicals
    IN  IF numel % row # 0
        THEN [raised |-> "RuntimeError", tensor |-> None]
        ELSE [raised |-> "none",
              tensor |-> Some([shape |-> <<numel \div row, n_timesteps, n_chemicals>>,
                               data |-> data])]

(***************************************************************************)
(* One instance A that is fitted, evaluated or saved, and a fresh B that   *)
(* loads the artifact                                                      *)
(***************************************************************************)
ModelDevices == {"cpu", "cuda:0"}

ModelBaseDirs == {<<"/", "t">>, <<"o">>, <<".">>}

TestID == <<"T", "e", "s", "t", "I", "D">>

\* data_params of save: the empty dictionary of test_save_load, and the
\* dictionaries of a run without and with normalization
DataParams ==
    {<<>>, [mode |-> "disabled"],
     [mode |-> "minmax", min |-> FromInt(0), max |-> FromInt(2)]}

PredictIdle ==
    /\ pr_self = "none"
    /\ pr_shape = <<>>
    /\ pr_raised = "none"
    /\ pr_loader = <<>>
    /\ pr_i = 0
    /\ pr_predictions = <<>>
    /\ pr_targets = <<>>
    /\ pr_processed = 0
    /\ pr_result = None

ModelInit ==
    /\ m_class \in ClassNames
    /\ \E d \in ModelDevices : m_a = Construct(m_class, d, "init_A")
    /\ \E d \in ModelDevices : m_b = Construct(m_class, d, "init_B")
    /\ m_duration = None
    /\ m_pc = "constructed"
    /\ m_args = None
    /\ m_disk = <<>>
    /\ m_raised = "none"
    /\ PredictIdle

ModelIdle ==
    /\ m_class = <<>>
    /\ m_a = <<>>
    /\ m_b = <<>>
    /\ m_duration = None
    /\ m_pc = "idle"
    /\ m_args = None
    /\ m_disk = <<>>
    /\ m_raised = "none"
    /\ PredictIdle

predictVars == <<pr_self, pr_shape, pr_loader, pr_i, pr_predictions, pr_targets,
                 pr_processed, pr_raised, pr_result>>

\* the __dict__ of the instance predict is called on
PredictSelf == IF pr_self = "B" THEN m_b ELSE m_a

\* fit of a concrete family: populates the losses and the learned parameters
Fit ==
    /\ m_pc = "constructed"
    /\ \E kind \in {"tensor", "ndarray", "list"}, tr \in BOOLEAN, nts \in BOOLEAN :
          LET loss(name) == Some([kind |-> kind, dtype |-> "float32", data |-> name])
              a1 == setattr(setattr(setattr(m_a, Attr.train_loss, loss("train_loss")),
                                    Attr.test_loss, loss("test_loss")),
                            Attr.MAE, loss("MAE"))
              a2 == setattr(setattr(a1, Attr.parameters, "fit_A"), Attr.training, tr)
          IN  m_a' = IF nts THEN setattr(a2, Attr.n_train_samples, 3) ELSE a2
    /\ m_duration' = Some("duration")
    /\ m_pc' = "fitted"
    /\ UNCHANGED <<m_class, m_b, m_args, m_disk, m_raised, predictVars>>

\* predict, lines 183-197, called on A at any time or on B after its load:
\* infer the output size and allocate the buffers
PredictAlloc ==
    /\ m_pc \in {"constructed", "fitted", "saved", "loaded"}
    /\ pr_self' \in IF m_pc = "loaded" THEN {"A", "B"} ELSE {"A"}
    /\ pr_shape' \in OutShapes
    /\ \E data_loader \in Loaders :
          LET dummy_outputs == forward(data_loader[1]).preds
              batch_size == Len(dummy_outputs)
              size == batch_size * Len(data_loader)
          IN  /\ pr_loader' = data_loader
              /\ pr_predictions' = zeros(size)
              /\ pr_targets' = zeros(size)
    /\ pr_i' = 0
    /\ pr_processed' = 0
    /\ m_pc' = "predicting"
    /\ UNCHANGED <<m_class, m_a, m_b, m_duration, m_args, m_disk, m_raised,
                   pr_raised, pr_result>>

\* predict, lines 200-205: one iteration of the loop over the loader
PredictBatch ==
    /\ m_pc = "predicting"
    /\ pr_i < Len(pr_loader)
    /\ LET out == forward(pr_loader[pr_i + 1])
           batch_size == Len(out.preds)
           lo == BatchOffset(pr_i, batch_size, Len(pr_loader[1]))
       IN  /\ pr_predictions' = SliceAssign(pr_predictions, lo, lo + batch_size, out.preds)
           /\ pr_targets' = SliceAssign(pr_targets, lo, lo + batch_size, out.targs)
           /\ pr_processed' = pr_processed + batch_size
    /\ pr_i' = pr_i + 1
    /\ UNCHANGED <<m_class, m_a, m_b, m_duration, m_pc, m_args, m_disk, m_raised,
                   pr_self, pr_shape, pr_loader, pr_raised, pr_result>>

\* predict, lines 207-217: slice to the processed samples, denormalize,
\* reshape to (-1, self.n_timesteps, self.n_chemicals), return
predict_return(self, predictions, targets, out_shape) ==
    LET p == denormalize(self[Attr.normalisation], predictions)
        t == denormalize(self[Attr.normalisation], targets)
        Raises(exc) == [raised |-> exc, result |-> None]
    IN  IF p.raised # "none" THEN Raises(p.raised)
        ELSE IF ~hasattr(self, Attr.n_timesteps) \/ ~hasattr(self, Attr.n_chemicals)
        THEN Raises("AttributeError")
        ELSE LET rp == reshape(p.data, out_shape, self[Attr.n_timesteps],
                               self[Attr.n_chemicals])
                 rt == reshape(t.data, out_shape, self[Attr.n_timesteps],
                               self[Attr.n_chemicals])
             IN  IF rp.raised # "none" THEN Raises(rp.raised)
                 ELSE [raised |-> "none",
                       result |-> Some([predictions |-> rp.tensor[1],
                                        targets |-> rt.tensor[1]])]

PredictReturn ==
    /\ m_pc = "predicting"
    /\ pr_i = Len(pr_loader)
    /\ LET r == predict_return(PredictSelf, SubSeq(pr_predictions, 1, pr_processed),
                               SubSeq(pr_targets, 1, pr_processed), pr_shape)
       IN  /\ pr_raised' = r.raised
           /\ pr_result' = r.result
    /\ m_pc' = "predicted"
    /\ UNCHANGED <<m_class, m_a, m_b, m_duration, m_args, m_disk, m_raised,
                   pr_self, pr_shape, pr_loader, pr_i, pr_predictions, pr_targets,
                   pr_processed>>

\* instance.save(model_name, base_dir, training_id = "TestID", data_params)
ModelSave ==
    /\ m_pc \in {"constructed", "fitted"}
    /\ \E model_name \in {<<"X", "7">>}, base_dir \in ModelBaseDirs, data_params \in DataParams :
          LET r == save(m_a, model_name, base_dir, TestID, data_params, m_class, m_duration)
          IN  /\ m_a' = r.self
              /\ m_disk' = r.files
              /\ m_args' = Some([model_name |-> model_name, base_dir |-> base_dir,
                                 training_id |-> TestID])
    /\ m_pc' = "saved"
    /\ UNCHANGED <<m_class, m_b, m_duration, m_raised, predictVars>>

\* new_instance.load(training_id, surr_name = class name,
\*                   model_identifier = model_name, model_dir = base_dir)
ModelLoad ==
    /\ m_pc = "saved"
    /\ LET a == m_args[1]
           r == load(m_b, a.training_id, m_class, a.model_name, Some(a.base_dir), m_disk)
       IN  /\ m_b' = r.self
           /\ m_raised' = r.raised
    /\ m_pc' = "loaded"
    /\ UNCHANGED <<m_class, m_a, m_duration, m_args, m_disk, predictVars>>

(***************************************************************************)
(* Normalization before training and AbstractSurrogateModel.denormalize    *)
(***************************************************************************)
MaxExp == 3

MaxVal == 3

RECURSIVE Pow10(_)
Pow10(e) == IF e = 0 THEN 1 ELSE 10 * Pow10(e - 1)

\* log10 of a power of ten
RECURSIVE Log10(_)
Log10(x) == IF x = 1 THEN 0 ELSE 1 + Log10(x \div 10)

\* the normalization step of the dataset loader: the optional log10, then the
\* rescaling of the mode (minmax maps [min, max] onto [-1, 1])
normalize(params, log10_applied, x) ==
    LET y == IF log10_applied THEN FromInt(Log10(x)) ELSE FromInt(x)
    IN  IF params = None THEN y
        ELSE LET p == params[1]
             IN  IF p.mode = "minmax"
                 THEN RSub(RDiv(RMul(FromInt(2), RSub(y, p.min)), RSub(p.max, p.min)),
                           FromInt(1))
                 ELSE IF p.mode = "standardize"
                 THEN RDiv(RSub(y, p.mean), p.std)
                 ELSE y

\* the data parameters of a mode: only the keys the mode has
NormDict(mode, a, b) ==
    IF mode = "minmax" THEN Some([mode |-> mode, min |-> a, max |-> b])
    ELSE IF mode = "standardize" THEN Some([mode |-> mode, mean |-> a, std |-> b])
    ELSE Some([mode |-> mode])

NormParams ==
    {None, NormDict("disabled", FromInt(0), FromInt(1))}
    \cup {NormDict("minmax", FromInt(a), FromInt(b)) : a \in {0 - 1, 0}, b \in {1, 3}}
    \cup {NormDict("standardize", FromInt(a), b) : a \in {0, 2}, b \in {FromInt(2), Rat(1, 2)}}

PhysicalValues(log10_applied) ==
    IF log10_applied THEN {Pow10(e) : e \in 0..MaxExp} ELSE (0 - MaxVal)..MaxVal

NormInit ==
    /\ nz_params \in NormParams
    /\ nz_log10 \in BOOLEAN
    /\ nz_x \in PhysicalValues(nz_log10)
    /\ nz_pc = "start"
    /\ nz_data = None
    /\ nz_out = None
    /\ nz_out2 = None

NormIdle ==
    /\ nz_params = None
    /\ nz_log10 = FALSE
    /\ nz_x = 0
    /\ nz_pc = "idle"
    /\ nz_data = None
    /\ nz_out = None
    /\ nz_out2 = None

\* the dataset loader normalizes the value
Normalize ==
    /\ nz_pc = "start"
    /\ nz_data' = Some(normalize(nz_params, nz_log10, nz_x))
    /\ nz_pc' = "normalized"
    /\ UNCHANGED <<nz_params, nz_log10, nz_x, nz_out, nz_out2>>

\* model.denormalize(data)
Denormalize ==
    /\ nz_pc = "normalized"
    /\ LET r == denormalize(nz_params, <<nz_data[1]>>)
       IN  nz_out' = IF r.raised = "none" THEN Some(r.data[1]) ELSE None
    /\ nz_pc' = "denormalized"
    /\ UNCHANGED <<nz_params, nz_log10, nz_x, nz_data, nz_out2>>

\* model.denormalize applied to its own result
DenormalizeAgain ==
    /\ nz_pc = "denormalized"
    /\ nz_out # None
    /\ LET r == denormalize(nz_params, <<nz_out[1]>>)
       IN  nz_out2' = IF r.raised = "none" THEN Some(r.data[1]) ELSE None
    /\ nz_pc' = "again"
    /\ UNCHANGED <<nz_params, nz_log10, nz_x, nz_data, nz_out>>

(***************************************************************************)
(* The steps of one worker call: train_and_save_model                      *)
(***************************************************************************)
MaxCalls == 2

\* The order of the statements of train_and_save_model
StepOrder_LoadFirst == <<"restrict", "load", "subset", "construct", "fit", "save">>

StepOrder == <<"restrict", "construct", "load", "subset", "fit", "save">>

StepIndex(step) == CHOOSE n \in 1..Len(StepOrder) : StepOrder[n] = step

\* the position a call is in when it reaches the step
Before(step) ==
    IF StepIndex(step) = 1 THEN "start" ELSE StepOrder[StepIndex(step) - 1]

\* the steps whose callee can raise
FailPoints == {"none", "construct", "load", "subset", "fit", "save"}

\* sub in s, for two texts
Contains(s, sub) ==
    \E k \in 0..(Len(s) - Len(sub)) : SubSeq(s, k + 1, k + Len(sub)) = sub

\* "cuda" in device
IsCuda(device) == Contains(device, <<"c", "u", "d", "a">>)

\* device if "cuda" in device else ""
VisibleDevices(device) == IF IsCuda(device) THEN device ELSE <<>>

\* the device arguments a call is given: "cpu", "cuda", "cuda:0", "cuda:7"
WorkerDevices ==
    {<<"c", "p", "u">>, <<"c", "u", "d", "a">>, <<"c", "u", "d", "a", ":", "0">>,
     <<"c", "u", "d", "a", ":", "7">>}

\* the calls a process is given are the first calls of this list
WorkerTasks ==
    <<Task(M_main, SchedSurrogate, <<>>), Task(M_interpolation, SchedSurrogate, <<"2">>),
      Task(M_UQ, SchedSurrogate, <<"1">>)>>

WorkerInit ==
    /\ \E n \in 1..MaxCalls : w_tasks = SubSeq(WorkerTasks, 1, n)
    /\ w_devices \in [1..Len(w_tasks) -> WorkerDevices]
    /\ w_fail \in [1..Len(w_tasks) -> FailPoints]
    /\ w_k = 1
    /\ w_pc = "start"
    /\ w_trace = [i \in 1..Len(w_tasks) |-> <<>>]
    /\ w_env = None
    /\ w_instances = 0
    /\ w_model = 0
    /\ w_used = [i \in 1..Len(w_tasks) |-> [fit |-> 0, save |-> 0]]
    /\ w_artifacts = [i \in 1..Len(w_tasks) |-> <<>>]

WorkerIdle ==
    /\ w_tasks = <<>>
    /\ w_devices = <<>>
    /\ w_fail = <<>>
    /\ w_k = 0
    /\ w_pc = "idle"
    /\ w_trace = <<>>
    /\ w_env = None
    /\ w_instances = 0
    /\ w_model = 0
    /\ w_used = <<>>
    /\ w_artifacts = <<>>

\* The current call reaches the step: the step is recorded, and it either
\* raises or completes
Reach(step) ==
    /\ w_k \in 1..Len(w_tasks)
    /\ w_pc = Before(step)
    /\ w_trace' = [w_trace EXCEPT ![w_k] = Append(@, step)]
    /\ w_pc' = IF w_fail[w_k] = step THEN "raised" ELSE step

\* line 70: os.environ["CUDA_VISIBLE_DEVICES"] = ...
Restrict ==
    /\ Reach("restrict")
    /\ w_env' = Some(VisibleDevices(w_devices[w_k]))
    /\ UNCHANGED <<w_tasks, w_devices, w_fail, w_k, w_instances, w_model, w_used,
                   w_artifacts>>

\* line 71: model = surrogate_class(device=device)
ConstructModel ==
    /\ Reach("construct")
    /\ IF w_fail[w_k] # "construct"
       THEN w_instances' = w_instances + 1 /\ w_model' = w_instances + 1
       ELSE UNCHANGED <<w_instances, w_model>>
    /\ UNCHANGED <<w_tasks, w_devices, w_fail, w_k, w_env, w_used, w_artifacts>>

\* lines 74-75: check_and_load_data for "train" and "test"
LoadData ==
    /\ Reach("load")
    /\ UNCHANGED <<w_tasks, w_devices, w_fail, w_k, w_env, w_instances, w_model,
                   w_used, w_artifacts>>

\* lines 78-80: get_data_subset
DeriveSubset ==
    /\ Reach("subset")
    /\ UNCHANGED <<w_tasks, w_devices, w_fail, w_k, w_env, w_instances, w_model,
                   w_used, w_artifacts>>

\* line 83: model.fit(train_data, test_data, timesteps)
FitModel ==
    /\ Reach("fit")
    /\ w_used' = [w_used EXCEPT ![w_k].fit = w_model]
    /\ UNCHANGED <<w_tasks, w_devices, w_fail, w_k, w_env, w_instances, w_model,
                   w_artifacts>>

\* lines 86-93: model_name and model.save(...)
SaveModel ==
    /\ Reach("save")
    /\ w_used' = [w_used EXCEPT ![w_k].save = w_model]
    /\ w_artifacts' =
          IF w_fail[w_k] # "save"
          THEN [w_artifacts EXCEPT ![w_k] =
                   <<ModelName(w_tasks[w_k].surrogate_name, w_tasks[w_k].mode,
                               w_tasks[w_k].metric)>>]
          ELSE w_artifacts
    /\ UNCHANGED <<w_tasks, w_devices, w_fail, w_k, w_env, w_instances, w_model>>

\* the call returns or its exception leaves it; the process takes its next call
CallEnds ==
    /\ w_k \in 1..Len(w_tasks)
    /\ w_pc \in {StepOrder[Len(StepOrder)], "raised"}
    /\ w_k' = w_k + 1
    /\ w_pc' = "start"
    /\ w_model' = 0
    /\ UNCHANGED <<w_tasks, w_devices, w_fail, w_trace, w_env, w_instances, w_used,
                   w_artifacts>>

(***************************************************************************)
(* Specifications                                                          *)
(***************************************************************************)
SchedIdle ==
    /\ entry = "none"
    /\ run_config = None
    /\ run_surrogates = <<>>
    /\ skipped = <<>>
    /\ device_list = <<"cpu">>
    /\ tasks = <<>>
    /\ failing = <<>>
    /\ pc = "idle"
    /\ submitted = 0
    /\ state = <<>>
    /\ call = <<>>
    /\ outcome = <<>>
    /\ assigned = <<>>
    /\ device_of = <<>>
    /\ starts = <<>>
    /\ save_names = <<>>
    /\ result_queue = <<>>
    /\ executor_broken = FALSE
    /\ collected = {}
    /\ reports = <<>>

\* A scheduling run, of main or of parallel_training
Init == SchedInit /\ GenIdle /\ NameIdle /\ PathIdle /\ SubsetIdle /\ ModelIdle /\ NormIdle /\ WorkerIdle

Next ==
    \/ MainBuild /\ UNCHANGED <<genVars, nameVars, pathVars, subsetVars, modelVars, normVars, workerVars>>
    \/ MainDispatch /\ UNCHANGED <<genVars, nameVars, pathVars, subsetVars, modelVars, normVars, workerVars>>
    \/ SeqLoop /\ UNCHANGED <<genVars, nameVars, pathVars, subsetVars, modelVars, normVars, workerVars>>
    \/ Submit /\ UNCHANGED <<genVars, nameVars, pathVars, subsetVars, modelVars, normVars, workerVars>>
    \/ EndSubmit /\ UNCHANGED <<genVars, nameVars, pathVars, subsetVars, modelVars, normVars, workerVars>>
    \/ \E i \in 1..N : FeedRejects(i) /\ UNCHANGED <<genVars, nameVars, pathVars, subsetVars, modelVars, normVars, workerVars>>
    \/ \E i \in 1..N : WorkerStart(i) /\ UNCHANGED <<genVars, nameVars, pathVars, subsetVars, modelVars, normVars, workerVars>>
    \/ \E i \in 1..N : WorkerSends(i) /\ UNCHANGED <<genVars, nameVars, pathVars, subsetVars, modelVars, normVars, workerVars>>
    \/ \E i \in 1..N : WorkerFinish(i) /\ UNCHANGED <<genVars, nameVars, pathVars, subsetVars, modelVars, normVars, workerVars>>
    \/ \E i \in 1..N : WorkerDies(i) /\ UNCHANGED <<genVars, nameVars, pathVars, subsetVars, modelVars, normVars, workerVars>>
    \/ ExecutorBreaks /\ UNCHANGED <<genVars, nameVars, pathVars, subsetVars, modelVars, normVars, workerVars>>
    \/ \E i \in 1..N : FailPending(i) /\ UNCHANGED <<genVars, nameVars, pathVars, subsetVars, modelVars, normVars, workerVars>>
    \/ TerminateWorkers /\ UNCHANGED <<genVars, nameVars, pathVars, subsetVars, modelVars, normVars, workerVars>>
    \/ \E i \in 1..N : Collect(i) /\ UNCHANGED <<genVars, nameVars, pathVars, subsetVars, modelVars, normVars, workerVars>>
    \/ PoolReturn /\ UNCHANGED <<genVars, nameVars, pathVars, subsetVars, modelVars, normVars, workerVars>>
    \/ PoolRaise /\ UNCHANGED <<genVars, nameVars, pathVars, subsetVars, modelVars, normVars, workerVars>>

Spec == Init /\ [][Next]_vars

\* Calls of train_surrogate over the bounded configurations
GenSpecInit == GenInit /\ SchedIdle /\ NameIdle /\ PathIdle /\ SubsetIdle /\ ModelIdle /\ NormIdle /\ WorkerIdle

GenSpecNext ==
    \/ Generate /\ UNCHANGED <<schedVars, nameVars, pathVars, subsetVars, modelVars, normVars, workerVars>>
    \/ GenerateAgain /\ UNCHANGED <<schedVars, nameVars, pathVars, subsetVars, modelVars, normVars, workerVars>>

GenSpec == GenSpecInit /\ [][GenSpecNext]_vars

\* The name derivation of the worker over the bounded tasks
NameSpecInit == NameInit /\ SchedIdle /\ GenIdle /\ PathIdle /\ SubsetIdle /\ ModelIdle /\ NormIdle /\ WorkerIdle

NameSpecNext == DeriveName /\ UNCHANGED <<schedVars, genVars, pathVars, subsetVars, modelVars, normVars, workerVars>>

NameSpec == NameSpecInit /\ [][NameSpecNext]_vars

\* save followed by load over the bounded paths
PathSpecInit == PathInit /\ SchedIdle /\ GenIdle /\ NameIdle /\ SubsetIdle /\ ModelIdle /\ NormIdle /\ WorkerIdle

PathSpecNext ==
    \/ Save /\ UNCHANGED <<schedVars, genVars, nameVars, subsetVars, modelVars, normVars, workerVars>>
    \/ Load /\ UNCHANGED <<schedVars, genVars, nameVars, subsetVars, modelVars, normVars, workerVars>>

PathSpec == PathSpecInit /\ [][PathSpecNext]_vars

\* Calls of get_data_subset over the bounded arrays, modes and metrics
SubsetSpecInit == SubsetInit /\ SchedIdle /\ GenIdle /\ NameIdle /\ PathIdle /\ ModelIdle /\ NormIdle /\ WorkerIdle

SubsetSpecNext == SelectSubset /\ UNCHANGED <<schedVars, genVars, nameVars, pathVars, modelVars, normVars, workerVars>>

SubsetSpec == SubsetSpecInit /\ [][SubsetSpecNext]_vars

\* The life of one surrogate instance: fit, predict, save, and load into a
\* fresh instance
ModelSpecInit ==
    ModelInit /\ SchedIdle /\ GenIdle /\ NameIdle /\ PathIdle /\ SubsetIdle /\ NormIdle /\ WorkerIdle

ModelSpecNext ==
    \/ Fit /\ UNCHANGED <<schedVars, genVars, nameVars, pathVars, subsetVars, normVars, workerVars>>
    \/ PredictAlloc /\ UNCHANGED <<schedVars, genVars, nameVars, pathVars, subsetVars, normVars, workerVars>>
    \/ PredictBatch /\ UNCHANGED <<schedVars, genVars, nameVars, pathVars, subsetVars, normVars, workerVars>>
    \/ PredictReturn /\ UNCHANGED <<schedVars, genVars, nameVars, pathVars, subsetVars, normVars, workerVars>>
    \/ ModelSave /\ UNCHANGED <<schedVars, genVars, nameVars, pathVars, subsetVars, normVars, workerVars>>
    \/ ModelLoad /\ UNCHANGED <<schedVars, genVars, nameVars, pathVars, subsetVars, normVars, workerVars>>

ModelSpec == ModelSpecInit /\ [][ModelSpecNext]_vars

\* One value through normalization and denormalize
NormSpecInit ==
    NormInit /\ SchedIdle /\ GenIdle /\ NameIdle /\ PathIdle /\ SubsetIdle /\ ModelIdle /\ WorkerIdle

NormSpecNext ==
    \/ Normalize /\ UNCHANGED <<schedVars, genVars, nameVars, pathVars, subsetVars, modelVars, workerVars>>
    \/ Denormalize /\ UNCHANGED <<schedVars, genVars, nameVars, pathVars, subsetVars, modelVars, workerVars>>
    \/ DenormalizeAgain /\ UNCHANGED <<schedVars, genVars, nameVars, pathVars, subsetVars, modelVars, workerVars>>

NormSpec == NormSpecInit /\ [][NormSpecNext]_vars

\* One worker process and the calls it executes
WorkerSpecInit ==
    WorkerInit /\ SchedIdle /\ GenIdle /\ NameIdle /\ PathIdle /\ SubsetIdle /\ ModelIdle /\ NormIdle

WorkerSpecNext ==
    \/ Restrict /\ UNCHANGED <<schedVars, genVars, nameVars, pathVars, subsetVars, modelVars, normVars>>
    \/ ConstructModel /\ UNCHANGED <<schedVars, genVars, nameVars, pathVars, subsetVars, modelVars, normVars>>
    \/ LoadData /\ UNCHANGED <<schedVars, genVars, nameVars, pathVars, subsetVars, modelVars, normVars>>
    \/ DeriveSubset /\ UNCHANGED <<schedVars, genVars, nameVars, pathVars, subsetVars, modelVars, normVars>>
    \/ FitModel /\ UNCHANGED <<schedVars, genVars, nameVars, pathVars, subsetVars, modelVars, normVars>>
    \/ SaveModel /\ UNCHANGED <<schedVars, genVars, nameVars, pathVars, subsetVars, modelVars, normVars>>
    \/ CallEnds /\ UNCHANGED <<schedVars, genVars, nameVars, pathVars, subsetVars, modelVars, normVars>>

WorkerSpec == WorkerSpecInit /\ [][WorkerSpecNext]_vars

(***************************************************************************)
(* Properties of the scheduler                                             *)
(***************************************************************************)
\* What a pool run records for task i: the worker's exception or its return
PoolOutcome(i) == IF failing[i] = "none" THEN "returned" ELSE "raised"

\* every call of the run returns or raises
CallsReturnOrRaise == \A i \in 1..N : failing[i] \in {"none"} \cup Raising

\* C1: Fault isolation in a pool run. Whatever subset of the workers raises,
\* in a run of parallel_training whose calls all return or raise: no
\* exception leaves parallel_training, and when it has returned every task
\* was started once and is finished with its own outcome, returned or raised.
C1_FaultIsolation ==
    (entry = "parallel_training" /\ CallsReturnOrRaise) =>
        /\ pc \notin {"raising", "aborted"}
        /\ pc = "done" =>
              \A i \in 1..N :
                  /\ state[i] = "finished"
                  /\ starts[i] = 1
                  /\ outcome[i] = PoolOutcome(i)

\* what does hold: a call that raises a subclass of Exception which the parent
\* can rebuild is contained
C1_ExceptionsContained ==
    (entry = "parallel_training" /\ \A i \in 1..N : failing[i] \in {"none", "Exception"}) =>
        /\ pc \notin {"raising", "aborted"}
        /\ pc = "done" =>
              \A i \in 1..N :
                  /\ state[i] = "finished"
                  /\ starts[i] = 1
                  /\ outcome[i] = PoolOutcome(i)
                  /\ Len(reports[i]) = 1

\* the tasks the generator yields for the surrogates of the configuration
RECURSIVE ExpectedTasks(_, _)
ExpectedTasks(config, names) ==
    IF names = <<>> THEN <<>>
    ELSE ExpectedTasks(config, SubSeq(names, 1, Len(names) - 1))
         \o train_surrogate(config, names[Len(names)])

\* C2: Single-device equivalence. When a run of main on a one-device pool is
\* over, the tasks of the configuration have been run one after the other
\* and every one has finished with the outcome a pool run gives it: raised
\* for a failing task, returned for every other task.
C2_SingleDeviceEquivalence ==
    (entry = "main" /\ Len(device_list) = 1 /\ RunOver) =>
        /\ tasks = ExpectedTasks(run_config[1], run_surrogates)
        /\ \A i \in 1..N : state[i] = "finished" /\ outcome[i] = PoolOutcome(i)

\* C3: Exactly-once execution and reporting. No task is ever started twice,
\* and when a run (pool or single-device) is over every task has been started
\* once and has exactly one report, labelled with the task's identity and
\* saying completion or the captured error according to its outcome.
C3_ExactlyOnce ==
    /\ \A i \in 1..N : starts[i] <= 1
    /\ RunOver =>
          \A i \in 1..N :
              /\ starts[i] = 1
              /\ Len(reports[i]) = 1
              /\ reports[i][1].task = print_task(tasks[i])
              /\ reports[i][1].kind =
                     (IF outcome[i] = "raised" THEN "Exception" ELSE "Completed")

\* What the submit loop does guarantee: every task that has been submitted or
\* called is bound to the device devices[i mod D] (i the 0-based index of the
\* task); the device a task is bound to never changes, whatever starts,
\* finishes or fails afterwards, and a call that is started is started with
\* that device.
AssignedAtSubmit ==
    /\ [](\A i \in 1..N :
            state[i] # "unsubmitted" =>
                \E k \in 0..(Len(device_list) - 1) :
                    /\ k = (i - 1) % Len(device_list)
                    /\ assigned[i] = device_list[k + 1])
    /\ [](\A i \in 1..N : starts[i] > 0 => device_of[i] = assigned[i])
    /\ [][\A i \in 1..N :
            /\ assigned[i] # "none" => assigned'[i] = assigned[i]
            /\ device_of[i] # "none" => device_of'[i] = device_of[i]]_vars

\* The assignment of the whole list is computed before any task starts
AssignedBeforeAnyStart ==
    (\E i \in 1..N : starts[i] > 0) =>
        \A j \in 1..N : assigned[j] = SubmitDevice(j, device_list)

\* C4: Deterministic device assignment. The task at index i is executed with
\* devices[i mod D]; the assignment is fixed at submission, before any task
\* starts, and does not depend on the order in which tasks start, finish or
\* fail.
C4_DeviceAssignment == AssignedAtSubmit /\ []AssignedBeforeAnyStart

\* C5: Bounded parallelism. The number of tasks whose call has started and
\* has not yet come to its end never exceeds len(devices). A call whose
\* process has exited still holds its process slot and is counted.
C5_BoundedParallelism == Cardinality(Running) <= Len(device_list)

\* The pool is saturated while a task of a longer list still waits.
C5_Witness ==
    /\ PoolPath
    /\ Cardinality(Running) = Len(device_list)
    /\ \E i \in 1..N : state[i] = "pending" /\ call[i] = "none"
    /\ N > Len(device_list)

(***************************************************************************)
(* Properties of the task generator                                        *)
(***************************************************************************)
Max(a, b) == IF a >= b THEN a ELSE b

GenReturned == gen_pc \in {"returned", "returned2"}

\* The number of tasks each mode contributes under configuration c
CountAccuracy(c) == IF c.accuracy THEN 1 ELSE 0
CountInterpolation(c) ==
    IF c.interpolation.enabled THEN Len(c.interpolation.intervals) ELSE 0
CountExtrapolation(c) ==
    IF c.extrapolation.enabled THEN Len(c.extrapolation.cutoffs) ELSE 0
CountSparse(c) == IF c.sparse.enabled THEN Len(c.sparse.factors) ELSE 0
CountUQ(c) == IF c.UQ.enabled THEN Max(c.UQ.n_models - 1, 0) ELSE 0

\* The list returned by train_surrogate is, in this
\* order: the task with the empty metric if accuracy is enabled, one
\* interpolation task per configured interval, one extrapolation task per
\* cutoff, one sparse task per factor (each in configured order, its metric
\* reading back as the configured number), and the UQ tasks with metrics
\* 1 .. n_models-1 ascending; disabled modes contribute nothing, so the length
\* is the sum of the enabled counts; every task carries the surrogate name;
\* and a second call with the same configuration returns the same list.
\* The mode label of the first task is left open here.
GeneratedInOrder ==
    GenReturned =>
        LET c == gen_config
            nA == CountAccuracy(c)
            nI == CountInterpolation(c)
            nE == CountExtrapolation(c)
            nS == CountSparse(c)
            nU == CountUQ(c)
        IN  /\ Len(gen_tasks) = nA + nI + nE + nS + nU
            /\ c.accuracy => gen_tasks[1].metric = <<>>
            /\ \A k \in 1..nI :
                  /\ gen_tasks[nA + k].mode = M_interpolation
                  /\ int(gen_tasks[nA + k].metric) =
                         [ok |-> TRUE, val |-> c.interpolation.intervals[k]]
            /\ \A k \in 1..nE :
                  /\ gen_tasks[nA + nI + k].mode = M_extrapolation
                  /\ int(gen_tasks[nA + nI + k].metric) =
                         [ok |-> TRUE, val |-> c.extrapolation.cutoffs[k]]
            /\ \A k \in 1..nS :
                  /\ gen_tasks[nA + nI + nE + k].mode = M_sparse
                  /\ int(gen_tasks[nA + nI + nE + k].metric) =
                         [ok |-> TRUE, val |-> c.sparse.factors[k]]
            /\ \A k \in 1..nU :
                  /\ gen_tasks[nA + nI + nE + nS + k].mode = M_UQ
                  /\ int(gen_tasks[nA + nI + nE + nS + k].metric) =
                         [ok |-> TRUE, val |-> k]
            /\ \A i \in 1..Len(gen_tasks) :
                  gen_tasks[i].surrogate_name = gen_surrogate
            /\ gen_pc = "returned2" => gen_tasks2 = gen_tasks

\* C6: Task Generator output. train_surrogate returns exactly the sequence
\* [one accuracy task if accuracy is enabled] ++ [one interpolation task per
\* interval] ++ [one extrapolation task per cutoff] ++ [one sparse task per
\* factor] ++ [UQ tasks 1 .. n_models-1], each in configured order; the length
\* is the sum of the enabled counts; two calls with the same configuration
\* return the same list.
C6_TaskGeneratorOutput ==
    /\ GeneratedInOrder
    /\ (GenReturned /\ gen_config.accuracy) =>
          gen_tasks[1] = Task(M_accuracy, gen_surrogate, <<>>)

\* The benchmark modes of the data model
BenchmarkModes == {M_accuracy, M_interpolation, M_extrapolation, M_sparse, M_UQ}

\* C7: Task mode domain. Every generated task has its mode among accuracy,
\* interpolation, extrapolation, sparse and UQ; the task produced when
\* accuracy is enabled has mode accuracy and the empty metric; every other
\* task has a non-empty metric.
C7_TaskModeDomain ==
    GenReturned =>
        /\ \A i \in 1..Len(gen_tasks) : gen_tasks[i].mode \in BenchmarkModes
        /\ gen_config.accuracy =>
              /\ gen_tasks[1].mode = M_accuracy
              /\ gen_tasks[1].metric = <<>>
        /\ \A i \in (CountAccuracy(gen_config) + 1)..Len(gen_tasks) :
              gen_tasks[i].metric # <<>>

(***************************************************************************)
(* Properties of the artifact name                                         *)
(***************************************************************************)
\* s with every run of consecutive c collapsed to a single c
RECURSIVE CollapseRuns(_, _)
CollapseRuns(s, c) ==
    IF Len(s) <= 1 THEN s
    ELSE IF s[1] = c /\ s[2] = c
         THEN CollapseRuns(Tail(s), c)
         ELSE <<s[1]>> \o CollapseRuns(Tail(s), c)

\* <surrogate>_<mode>_<metric>, lowercase, underscore runs collapsed, no
\* leading or trailing underscore
NormalisedName(t) ==
    strip(CollapseRuns(lower(t.surrogate_name \o <<"_">> \o t.mode \o <<"_">> \o t.metric),
                       "_"),
          "_")

\* C8: Artifact name derivation. The name passed to save is
\* <surrogate>_<mode>_<metric> in lowercase with every run of underscores
\* collapsed to one and none leading or trailing; so it holds no uppercase
\* character and no double underscore, for every mode and surrogate name.
C8_ArtifactName ==
    nm_pc = "named" =>
        /\ nm_name = NormalisedName(nm_task)
        /\ \A k \in 1..Len(nm_name) : ~IsUpper(nm_name[k])
        /\ \A k \in 1..(Len(nm_name) - 1) : ~(nm_name[k] = "_" /\ nm_name[k + 1] = "_")

(***************************************************************************)
(* Properties of the artifact location                                     *)
(***************************************************************************)
IsNamedComponent(c) == c # <<>> /\ c # <<".">>

\* The location a path text names: whether it is absolute, and its components
\* without the empty and "." ones
NormPath(p) ==
    [abs |-> Len(p) > 0 /\ p[1] = "/",
     comps |-> SelectSeq(SplitPath(p), IsNamedComponent)]

DirOf(loc) == [abs |-> loc.abs, comps |-> SubSeq(loc.comps, 1, Len(loc.comps) - 1)]

FileOf(loc) == loc.comps[Len(loc.comps)]

\* base_dir/training_id/<model-family-name>/
ArtifactDir ==
    [abs |-> NormPath(p_base_dir).abs,
     comps |-> NormPath(p_base_dir).comps \o <<p_training_id, p_class>>]

\* C9: Persisted artifact location. For every base_dir, absolute or relative,
\* save writes <model_name>.yaml and <model_name>.pth in exactly the directory
\* base_dir/training_id/<model-family-name>/, and the load that follows with
\* model_dir = base_dir, the same training_id, surr_name = the class name and
\* model_identifier = model_name reads the state file at that same location.
C9_ArtifactLocation ==
    (p_pc = "loaded" /\ p_model_dir = Some(p_base_dir)) =>
        /\ \A f \in p_written : DirOf(NormPath(f)) = ArtifactDir
        /\ {FileOf(NormPath(f)) : f \in p_written} =
               {p_model_name \o EXT_yaml, p_model_name \o EXT_pth}
        /\ NormPath(p_read) \in {NormPath(f) : f \in p_written}

(***************************************************************************)
(* Properties of the data subset selector                                  *)
(***************************************************************************)
Min(a, b) == IF a <= b THEN a ELSE b

\* ceil(n / k) for k > 0
CeilDiv(n, k) == (n + k - 1) \div k

\* r holds the elements of a at indices 0, k, 2k, ... (0-based)
IsStrideOf(r, a, k) ==
    /\ Len(r) = CeilDiv(Len(a), k)
    /\ \A j \in 1..Len(r) : r[j] = a[(j - 1) * k + 1]

\* r holds the first min(k, length) elements of a
IsPrefixOf(r, a, k) ==
    /\ Len(r) = Min(k, Len(a))
    /\ \A j \in 1..Len(r) : r[j] = a[j]

\* every trajectory of data array r is related by Rel(_, _, k) to the same
\* trajectory of a
EachTrajectory(r, a, k, Rel(_, _, _)) ==
    /\ Len(r) = Len(a)
    /\ \A i \in 1..Len(a) : Rel(r[i], a[i], k)

\* C10: Data Subset Selector result. For a positive integer metric k the call
\* returns: for interpolation the timesteps at indices 0, k, 2k, ... of both
\* data arrays and of the timestep array; for extrapolation the first
\* min(k, T) timesteps of all three; for sparse the trajectories at indices
\* 0, k, 2k, ... of both data arrays with the timestep array unchanged; for
\* accuracy, UQ and any other mode all three inputs unchanged. In every case
\* every trajectory of train' and of test' is as long as timesteps'.
C10_DataSubset ==
    (s_pc = "returned" /\ int(s_metric).ok /\ int(s_metric).val > 0) =>
        LET k == int(s_metric).val
            r == s_result
        IN  /\ r.raised = "none"
            /\ s_mode = M_interpolation =>
                  /\ EachTrajectory(r.train_data, s_train, k, IsStrideOf)
                  /\ EachTrajectory(r.test_data, s_test, k, IsStrideOf)
                  /\ IsStrideOf(r.timesteps, s_timesteps, k)
            /\ s_mode = M_extrapolation =>
                  /\ EachTrajectory(r.train_data, s_train, k, IsPrefixOf)
                  /\ EachTrajectory(r.test_data, s_test, k, IsPrefixOf)
                  /\ IsPrefixOf(r.timesteps, s_timesteps, k)
            /\ s_mode = M_sparse =>
                  /\ IsStrideOf(r.train_data, s_train, k)
                  /\ IsStrideOf(r.test_data, s_test, k)
                  /\ r.timesteps = s_timesteps
            /\ s_mode \notin {M_interpolation, M_extrapolation, M_sparse} =>
                  /\ r.train_data = s_train
                  /\ r.test_data = s_test
                  /\ r.timesteps = s_timesteps
            /\ \A i \in 1..Len(r.train_data) :
                  Len(r.train_data[i]) = Len(r.timesteps)
            /\ \A i \in 1..Len(r.test_data) :
                  Len(r.test_data[i]) = Len(r.timesteps)

\* An extrapolation call whose cutoff is shorter than the series has returned
\* the shortened arrays.
C10_Witness ==
    /\ s_pc = "returned"
    /\ s_mode = M_extrapolation
    /\ int(s_metric) = [ok |-> TRUE, val |-> 2]
    /\ Len(s_timesteps) = 4
    /\ s_result.raised = "none"
    /\ s_result.timesteps = <<1, 2>>
    /\ Len(s_result.train_data) = Len(s_train)
    /\ s_result.train_data[1] = <<s_train[1][1], s_train[1][2]>>

\* C11: Invalid metric rejection. For interpolation, extrapolation and sparse,
\* a call whose metric does not parse to a positive integer (non-integer
\* text, zero, a negative integer) fails with InvalidMetricError and returns
\* no arrays.
C11_InvalidMetricRejected ==
    (/\ s_pc = "returned"
     /\ s_mode \in {M_interpolation, M_extrapolation, M_sparse}
     /\ ~(int(s_metric).ok /\ int(s_metric).val > 0)) =>
        /\ s_result.raised = "InvalidMetricError"
        /\ s_result.train_data = <<>>
        /\ s_result.test_data = <<>>
        /\ s_result.timesteps = <<>>

(***************************************************************************)
(* Properties of configuration checking and of device use                  *)
(***************************************************************************)
IsInvalidValue(v) == v <= 0

HasInvalid(values) == \E k \in 1..Len(values) : IsInvalidValue(values[k])

\* The configuration holds an invalid interval, cutoff or factor in an
\* enabled mode
HasInvalidMetric(c) ==
    \/ c.interpolation.enabled /\ HasInvalid(c.interpolation.intervals)
    \/ c.extrapolation.enabled /\ HasInvalid(c.extrapolation.cutoffs)
    \/ c.sparse.enabled /\ HasInvalid(c.sparse.factors)

\* C12: Early rejection of bad configuration. For a configuration holding an
\* invalid interval, cutoff or factor, train_surrogate fails with
\* InvalidMetricError: it never returns a task list that could be submitted.
C12_EarlyRejection ==
    HasInvalidMetric(gen_config) => ~GenReturned

\* C19: Device exclusivity in a pool run. No two tasks that run at the same
\* time hold the same device.
C19_DeviceExclusivity ==
    \A i, j \in Running : i # j => device_of[i] # device_of[j]

(***************************************************************************)
(* Properties of the surrogate instance                                    *)
(***************************************************************************)
\* every batch has the size of the first, except that the last may be smaller
RegularLoader(loader) ==
    /\ Len(loader) > 0
    /\ \A i \in 1..Len(loader) :
          /\ Len(loader[i]) > 0
          /\ Len(loader[i]) <= Len(loader[1])
          /\ i < Len(loader) => Len(loader[i]) = Len(loader[1])

RECURSIVE SamplesUpTo(_, _)
SamplesUpTo(loader, i) ==
    IF i = 0 THEN 0 ELSE SamplesUpTo(loader, i - 1) + Len(loader[i])

Presented(loader) == SamplesUpTo(loader, Len(loader))

\* the value predict returns for the output x of the model: x in physical units
Physical(self, x) == denormalize(self[Attr.normalisation], <<x>>).data[1]

\* C13: predict sample order and count. For a loader whose batches all have
\* the same size except a possibly smaller last one, a predict that returns,
\* on model outputs of the instance's shape, returns as many samples as the
\* loader presented, and the j-th returned prediction and target are those
\* of the j-th presented sample.
C13_PredictOrderAndCount ==
    (/\ m_pc = "predicted" /\ pr_raised = "none"
     /\ pr_shape = <<N_TIMESTEPS, N_CHEMICALS>>
     /\ RegularLoader(pr_loader)) =>
        LET r == pr_result[1]
            n == Presented(pr_loader)
        IN  /\ r.predictions.shape[1] = n /\ Len(r.predictions.data) = n
            /\ r.targets.shape[1] = n /\ Len(r.targets.data) = n
            /\ \A j \in 1..n :
                  /\ r.predictions.data[j] = Physical(PredictSelf, Pred(j))
                  /\ r.targets.data[j] = Physical(PredictSelf, Targ(j))

\* the file save wrote for the arguments of the save call
SavedFileOf(args, ext) ==
    LET a == args[1]
    IN  path_join(<<save_model_dir(a.base_dir, a.training_id, m_class),
                    a.model_name \o ext>>)

SavedFile(ext) == SavedFileOf(m_args, ext)

\* What load does restore when it finds the artifact A's save wrote: A's
\* parameters and every persisted attribute with A's value at save time,
\* except device, which stays d_B, and training, which is False afterwards.
RestoredExceptTraining ==
    [][(m_pc = "saved" /\ m_pc' = "loaded" /\ m_raised' = "none") =>
          LET model_dict == m_disk[SavedFile(EXT_pth)]
              attrs == model_dict.attributes
          IN  /\ model_dict.state_dict = m_a[Attr.parameters]
              /\ m_b'[Attr.parameters] = m_a[Attr.parameters]
              /\ \A k \in DOMAIN attrs \ {Attr.device, Attr.training} :
                    /\ attrs[k] = m_a[k]
                    /\ hasattr(m_b', k) /\ m_b'[k] = attrs[k]
              /\ m_b'[Attr.device] = m_b[Attr.device]
              /\ m_b'[Attr.training] = FALSE]_vars

\* C14: save/load round-trip. After A is saved and a fresh B of the same
\* family, built with device d_B, loads that artifact, the load has succeeded,
\* B holds A's parameters and every attribute persisted by save with A's
\* value at save time, except device, which remains d_B; and B is in
\* inference mode.
C14_SaveLoadRoundTrip ==
    [][(m_pc = "saved" /\ m_pc' = "loaded") =>
          LET attrs == m_disk[SavedFile(EXT_pth)].attributes
          IN  /\ m_raised' = "none"
              /\ m_b'[Attr.parameters] = m_a[Attr.parameters]
              /\ \A k \in DOMAIN attrs \ {Attr.device} :
                    /\ attrs[k] = m_a[k]
                    /\ hasattr(m_b', k) /\ m_b'[k] = attrs[k]
              /\ m_b'[Attr.device] = m_b[Attr.device]
              /\ m_b'[Attr.training] = FALSE]_vars

Unfitted(self) ==
    self[Attr.train_loss] = None /\ self[Attr.test_loss] = None /\ self[Attr.MAE] = None

\* C15: NotFittedError on misuse. On an instance whose losses are still
\* unset, a call to save or to predict fails with NotFittedError and writes
\* no artifact file.
C15_NotFittedError ==
    /\ (m_pc = "saved" /\ Unfitted(m_a)) =>
          m_raised = "NotFittedError" /\ DOMAIN m_disk = {}
    /\ (m_pc = "predicted" /\ Unfitted(PredictSelf)) => pr_raised = "NotFittedError"

\* C17: save's effect on the timestep count. When save is called on an
\* instance that has n_timesteps, the hyperparameter record holds that count
\* (and n_train_samples if the instance has it), afterwards the instance has
\* no n_timesteps, the persisted attributes do not hold it, and every other
\* non-private attribute the instance had is still on it.
C17_SaveTimestepCount ==
    [][(m_pc # "saved" /\ m_pc' = "saved" /\ hasattr(m_a, Attr.n_timesteps)) =>
          LET hyperparameters == m_disk'[SavedFileOf(m_args', EXT_yaml)]
              attrs == m_disk'[SavedFileOf(m_args', EXT_pth)].attributes
          IN  /\ hasattr(hyperparameters, Attr.n_timesteps)
              /\ hyperparameters[Attr.n_timesteps] = m_a[Attr.n_timesteps]
              /\ hasattr(m_a, Attr.n_train_samples) =>
                    /\ hasattr(hyperparameters, Attr.n_train_samples)
                    /\ hyperparameters[Attr.n_train_samples] = m_a[Attr.n_train_samples]
              /\ ~hasattr(m_a', Attr.n_timesteps)
              /\ ~hasattr(attrs, Attr.n_timesteps)
              /\ \A k \in DOMAIN m_a \ {Attr.n_timesteps} :
                    ~startswith_underscore(k) => hasattr(m_a', k)]_vars

C17_Witness ==
    /\ m_pc = "saved"
    /\ hasattr(m_a, Attr.n_train_samples)
    /\ ~hasattr(m_a, Attr.n_timesteps)
    /\ m_disk[SavedFile(EXT_yaml)][Attr.n_timesteps] = N_TIMESTEPS

\* C16: denormalize is the inverse of normalization. For every input x,
\* denormalize(normalize(x)) = x: under disabled the input is returned
\* unchanged and a second application changes nothing, under minmax and
\* standardize the rescaling is inverted exactly, and when log10 was applied
\* it is inverted too, so that the result is in physical units.
C16_DenormalizeInverse ==
    LET disabled == nz_params # None /\ nz_params[1].mode = "disabled"
    IN  /\ nz_pc \in {"denormalized", "again"} =>
              /\ nz_out = Some(FromInt(nz_x))
              /\ disabled => nz_out = nz_data
        /\ (nz_pc = "again" /\ disabled) => nz_out2 = nz_out

\* the rescaling alone is inverted in every mode
C16_RescalingInverted ==
    (nz_pc \in {"denormalized", "again"} /\ ~nz_log10) => nz_out = Some(FromInt(nz_x))

(***************************************************************************)
(* Properties of the worker                                                *)
(***************************************************************************)
IsPrefix(s, t) == Len(s) <= Len(t) /\ \A n \in 1..Len(s) : s[n] = t[n]

Performed(i, step) == \E n \in 1..Len(w_trace[i]) : w_trace[i][n] = step

\* what holds of every call whatever the order of construct and load
WorkerCallsSound ==
    \A i \in 1..Len(w_tasks) :
        /\ (i = w_k /\ Performed(i, "restrict")) =>
              w_env = Some(VisibleDevices(w_devices[i]))
        /\ Performed(i, "save") =>
              /\ Performed(i, "fit") /\ w_fail[i] # "fit"
              /\ w_used[i].fit # 0 /\ w_used[i].save = w_used[i].fit
        /\ w_fail[i] \in {"load", "subset", "fit"} => w_artifacts[i] = <<>>
        /\ w_artifacts[i] # <<>> => Performed(i, "save")
        /\ \A j \in 1..Len(w_tasks) :
              (j # i /\ w_used[i].fit # 0 /\ w_used[j].fit # 0) =>
                  w_used[i].fit # w_used[j].fit

\* C18 as amended: within each call the steps happen in the order restrict
\* to the assigned device, construct one fresh model instance, load dataset,
\* derive subset, fit, save; save is called only after fit returned on that
\* same instance, a call whose load, subset or fit raises writes no
\* artifact, and no instance is used by two calls.
C18_WorkerStepOrder ==
    /\ \A i \in 1..Len(w_tasks) :
          IsPrefix(w_trace[i], <<"restrict", "construct", "load", "subset", "fit", "save">>)
    /\ WorkerCallsSound

\* the first call saved its artifact on a cuda device, and the second, given
\* another device in the same process, raised in fit
C18_Witness ==
    /\ Len(w_tasks) = 2
    /\ w_k = 3
    /\ IsCuda(w_devices[1])
    /\ w_devices[2] # w_devices[1]
    /\ w_env = Some(VisibleDevices(w_devices[2]))
    /\ w_artifacts[1] # <<>>
    /\ w_fail[2] = "fit"
    /\ Performed(2, "fit")
    /\ w_instances = 2

\* C18 as stated: restrict, load dataset, derive subset, construct, fit, save
C18_LoadBeforeConstruct ==
    \A i \in 1..Len(w_tasks) :
        IsPrefix(w_trace[i], <<"restrict", "load", "subset", "construct", "fit", "save">>)

====
